---- MODULE Spec2Model ----
(***************************************************************************)
(* State-machine model of the payment-authorization hooks of the x402      *)
(* paywall (src/src/paywall-hooks.ts and its helpers).                      *)
(*                                                                         *)
(* One JavaScript thread runs the hooks: code between two awaits is one    *)
(* atomic step.  Every invocation of signPayment / connectWithConnector is *)
(* a task with a program counter naming the await it is suspended at; the  *)
(* wallet, the server and the caller's callbacks are the environment and   *)
(* choose how each awaited call settles.                                    *)
(***************************************************************************)
EXTENDS Integers, Sequences, FiniteSets, TLC

----------------------------------------------------------------------------
(* Bounds of the model *)

MaxInvocations == 2   \* invocations in flight at once
MaxNonce == 3         \* no token is issued beyond this value
MaxLockCalls == 6     \* calls made on a lock that is driven directly
MaxFetches == 3       \* invocations of the component's fetchBalances

Invocations == 1..MaxInvocations

----------------------------------------------------------------------------
(* JavaScript values the code inspects *)

JsUndefined == [t |-> "undefined", v |-> ""]
JsString(s) == [t |-> "string", v |-> s]
JsNumber(s) == [t |-> "number", v |-> s]

\* !x for the values above
Falsy(x) == x.t = "undefined" \/ (x.t = "string" /\ x.v = "") \/ (x.t = "number" /\ x.v = "0")

\* Thrown / rejected values, by the features the catch blocks look at.
\*   nullish : null or undefined (a property read on it throws TypeError)
\*   truthy  : !e is false
\*   isError : e instanceof Error
\*   cls     : the class instanceof can see
\*   code, name, message : own properties (0 / "" / JsUndefined when absent)
Thrown(nullish, truthy, isError, cls, code, name, message) ==
  [nullish |-> nullish, truthy |-> truthy, isError |-> isError, cls |-> cls,
   code |-> code, name |-> name, message |-> message]

NewError(msg) == Thrown(FALSE, TRUE, TRUE, "Error", 0, "Error", JsString(msg))
ThrownNullish == Thrown(TRUE, FALSE, FALSE, "", 0, "", JsUndefined)
ThrownZero == Thrown(FALSE, FALSE, FALSE, "", 0, "", JsUndefined)
ThrownCode4001 == Thrown(FALSE, TRUE, FALSE, "Object", 4001, "", JsUndefined)
ThrownCode4001Text ==
  Thrown(FALSE, TRUE, FALSE, "Object", 4001, "", JsString("MetaMask Tx Signature: denied"))
ThrownViemRejection ==
  Thrown(FALSE, TRUE, TRUE, "UserRejectedRequestError", 4001,
         "UserRejectedRequestError", JsString("User rejected the request."))
ThrownNamedRejection ==
  Thrown(FALSE, TRUE, FALSE, "Object", 0, "TransactionRejectedRpcError", JsUndefined)
ThrownRejectionText == NewError("Wallet: USER REJECTED signing")
ThrownEmptyError == NewError("")
ThrownBoom == NewError("boom")
ThrownAlreadyConnected ==
  Thrown(FALSE, TRUE, TRUE, "ConnectorAlreadyConnectedError", 0,
         "ConnectorAlreadyConnectedError", JsString("Connector already connected."))
ThrownAlreadyConnectedName ==
  Thrown(FALSE, TRUE, FALSE, "Object", 0, "ConnectorAlreadyConnectedError", JsUndefined)
ThrownAlreadyConnectedText == NewError("Wallet is ALREADY CONNECTED to this site")
TypeErrorNullRead == NewError("Cannot read properties of undefined (reading 'message')")

ThrownValues ==
  {ThrownNullish, ThrownZero, ThrownCode4001, ThrownCode4001Text, ThrownViemRejection,
   ThrownNamedRejection, ThrownRejectionText, ThrownEmptyError, ThrownBoom,
   ThrownAlreadyConnected, ThrownAlreadyConnectedName, ThrownAlreadyConnectedText}

\* What a caller-supplied callback can do when invoked.
CallbackBehaviours == {"returns", "throws"}

\* String.prototype.toLowerCase().includes(...) over the message texts of the model
LowerIncludesUserRejected(s) ==
  s \in {"User rejected the request.", "Wallet: USER REJECTED signing",
         "Payment declined: user rejected terms"}
LowerIncludesAlreadyConnected(s) ==
  s \in {"Connector already connected.", "Wallet is ALREADY CONNECTED to this site"}

----------------------------------------------------------------------------
(* paywall-helpers: ErrorClassifier *)

\* A classifier that forgets the wallet-standard code
isUserRejectionWithoutCode(error) ==
  IF ~error.truthy THEN FALSE
  ELSE IF error.cls \in {"UserRejectedRequestError", "TransactionRejectedRpcError"} THEN TRUE
  ELSE IF error.name \in {"UserRejectedRequestError", "TransactionRejectedRpcError"} THEN TRUE
  ELSE error.message.t = "string" /\ LowerIncludesUserRejected(error.message.v)

\* Line 136: err.message?.toLowerCase() is a TypeError when message is
\* neither nullish nor a string; the lines before it have not returned
isUserRejectionThrows(error) ==
  /\ error.truthy
  /\ error.cls \notin {"UserRejectedRequestError", "TransactionRejectedRpcError"}
  /\ error.code # 4001
  /\ error.name \notin {"UserRejectedRequestError", "TransactionRejectedRpcError"}
  /\ error.message.t \notin {"undefined", "string"}

\* The value isUserRejection returns, where it returns
isUserRejection(error) ==
  IF ~error.truthy THEN FALSE
  ELSE IF error.cls \in {"UserRejectedRequestError", "TransactionRejectedRpcError"} THEN TRUE
  ELSE IF error.code = 4001 THEN TRUE
  ELSE IF error.name \in {"UserRejectedRequestError", "TransactionRejectedRpcError"} THEN TRUE
  ELSE error.message.t = "string" /\ LowerIncludesUserRejected(error.message.v)

\* Line 380: err.message?.toLowerCase() is a TypeError when message is
\* neither nullish nor a string; the lines before it have not returned
isAlreadyConnectedThrows(error) ==
  /\ error.truthy
  /\ error.cls # "ConnectorAlreadyConnectedError"
  /\ error.name # "ConnectorAlreadyConnectedError"
  /\ error.message.t \notin {"undefined", "string"}

\* The value isAlreadyConnected returns, where it returns
isAlreadyConnected(error) ==
  IF ~error.truthy THEN FALSE
  ELSE IF error.cls = "ConnectorAlreadyConnectedError" THEN TRUE
  ELSE IF error.name = "ConnectorAlreadyConnectedError" THEN TRUE
  ELSE error.message.t = "string" /\ LowerIncludesAlreadyConnected(error.message.v)

----------------------------------------------------------------------------
(* usePaywallStatus: reducer and transition functions *)

DEFAULT_PROCESSING_TEXT == "Processing payment..."
GenericFailureText == "Payment failed. Please try again."

PaywallStatuses == {"connect", "connected", "processing", "success", "error"}

\* A reducer whose setError builds the state anew
paywallReducerRebuildingOnError(st, action) ==
  CASE action.type = "setStatus" -> [st EXCEPT !.status = action.status]
    [] action.type = "setProcessingText" -> [st EXCEPT !.processingText = action.text]
    [] action.type = "setError" ->
         [status |-> "error", errorMessage |-> action.message,
          processingText |-> DEFAULT_PROCESSING_TEXT]
    [] action.type = "reset" ->
         [status |-> action.status, errorMessage |-> "", processingText |-> action.processingText]
    [] OTHER -> st

paywallReducer(st, action) ==
  CASE action.type = "setStatus" -> [st EXCEPT !.status = action.status]
    [] action.type = "setProcessingText" -> [st EXCEPT !.processingText = action.text]
    [] action.type = "setError" -> [st EXCEPT !.status = "error", !.errorMessage = action.message]
    [] action.type = "reset" ->
         [status |-> action.status, errorMessage |-> "", processingText |-> action.processingText]
    [] OTHER -> st

InitialPaywallState ==
  [status |-> "connect", errorMessage |-> "", processingText |-> DEFAULT_PROCESSING_TEXT]

setStatus(st, status) == paywallReducer(st, [type |-> "setStatus", status |-> status])
setProcessingText(st, text) == paywallReducer(st, [type |-> "setProcessingText", text |-> text])
resetState(st, status) ==
  paywallReducer(st, [type |-> "reset", status |-> status,
                      processingText |-> DEFAULT_PROCESSING_TEXT])

\* One log entry of an invocation: an externally visible effect it performed.
Fx(op, arg) == [op |-> op, arg |-> arg]

\* showError(message, err) with onError behaving as cb.  The result carries
\* the next PaywallState, the effects in order and whether onError threw.
showError(st, message, err, cb) ==
  LET errorText == IF message = "" THEN GenericFailureText ELSE message
      callsOnError == err.isError \/ message # ""
      onErrorArg == IF err.isError THEN err.message.v ELSE message
  IN [state |-> paywallReducer(st, [type |-> "setError", message |-> errorText]),
      fx |-> <<Fx("showError", errorText)>> \o
             (IF callsOnError THEN <<Fx("onError", onErrorArg)>> ELSE <<>>),
      threw |-> callsOnError /\ cb = "throws"]

----------------------------------------------------------------------------
(* useActionLock *)

\* A beginAction that forgets the lock test
BeginNeverRefused(lock) == FALSE

\* beginAction: line 293, the lock test
BeginRefused(lock) == lock

isActionStale(nonce, actionId) == nonce # actionId

\* A beginAction that assigns the counter instead of incrementing it
beginActionFixedToken(lock, nonce, busy) ==
  IF BeginRefused(lock)
  THEN [taken |-> FALSE, token |-> 0, lock |-> lock, nonce |-> nonce, busy |-> busy]
  ELSE [taken |-> TRUE, token |-> 1, lock |-> TRUE, nonce |-> 1, busy |-> TRUE]

\* beginAction, from the lock state before the call; taken = FALSE is the
\* null return.
beginAction(lock, nonce, busy) ==
  IF BeginRefused(lock)
  THEN [taken |-> FALSE, token |-> 0, lock |-> lock, nonce |-> nonce, busy |-> busy]
  ELSE [taken |-> TRUE, token |-> nonce + 1, lock |-> TRUE, nonce |-> nonce + 1, busy |-> TRUE]

\* An endAction that clears the busy flag only
endActionKeepsLock == [lock |-> TRUE, busy |-> FALSE]

\* endAction: what it leaves in the lock and the busy flag
endAction == [lock |-> FALSE, busy |-> FALSE]

\* A resetAction that only clears the lock
resetActionWithoutBump(nonce) == [lock |-> FALSE, nonce |-> nonce, busy |-> FALSE]

\* resetAction: what it leaves in the lock, the counter and the busy flag
resetAction(nonce) == [lock |-> FALSE, nonce |-> nonce + 1, busy |-> FALSE]

\* endAction placed at the end of the try block, after the stale returns
FinallySkipsStale(exit) == exit \in {"completed", "caught", "escaped"}

\* The try / finally around both actions: which exits pass through finally
\* and so call endAction.
FinallyRuns(exit) == exit \in {"completed", "stale", "caught", "escaped"}

----------------------------------------------------------------------------
(* utils: parseNetworkChainId.  A network identifier is the sequence of    *)
(* its characters; <<>> is the empty string and stands for an absent one.   *)

Digits == <<"0", "1", "2", "3", "4", "5", "6", "7", "8", "9">>
IsDigit(c) == \E d \in DOMAIN Digits : Digits[d] = c
DigitValue(c) == (CHOOSE d \in DOMAIN Digits : Digits[d] = c) - 1

\* String.prototype.toLowerCase over the letters the identifiers use
LowerChar(c) ==
  CASE c = "E" -> "e" [] c = "I" -> "i" [] c = "P" -> "p" [] c = "B" -> "b"
    [] OTHER -> c

Eip155Prefix == <<"e", "i", "p", "1", "5", "5", ":">>

\* /eip155:(\d+)/i matches at position p
MatchesAt(network, p) ==
  /\ p + Len(Eip155Prefix) <= Len(network)
  /\ \A k \in DOMAIN Eip155Prefix : LowerChar(network[p + k - 1]) = Eip155Prefix[k]
  /\ IsDigit(network[p + Len(Eip155Prefix)])

\* The end of the run of digits that starts at position p (\d+ is greedy)
RECURSIVE DigitsEnd(_, _)
DigitsEnd(network, p) ==
  IF p < Len(network) /\ IsDigit(network[p + 1]) THEN DigitsEnd(network, p + 1) ELSE p

\* Number(match[1])
RECURSIVE NumberOf(_)
NumberOf(digits) ==
  IF digits = <<>> THEN 0
  ELSE 10 * NumberOf(SubSeq(digits, 1, Len(digits) - 1)) + DigitValue(digits[Len(digits)])

JsNull == [isNull |-> TRUE, n |-> 0]
JsNum(n) == [isNull |-> FALSE, n |-> n]

parseNetworkChainId(network) ==
  IF network = <<>> THEN JsNull
  ELSE LET starts == {p \in DOMAIN network : MatchesAt(network, p)}
           first == CHOOSE p \in starts : \A q \in starts : p <= q
           from == first + Len(Eip155Prefix)
       IN IF starts = {} THEN JsNull
          ELSE JsNum(NumberOf(SubSeq(network, from, DigitsEnd(network, from))))

----------------------------------------------------------------------------
(* paywall-helpers: AmountNormalizer.  Strings are sequences of characters. *)

JsStrNull == [isNull |-> TRUE, chars |-> <<>>]
JsStr(chars) == [isNull |-> FALSE, chars |-> chars]

AllDigits(chars) == \A k \in DOMAIN chars : IsDigit(chars[k])

\* The position of the first "." at or after position p, 0 when there is none
RECURSIVE DotFrom(_, _)
DotFrom(chars, p) ==
  IF p > Len(chars) THEN 0
  ELSE IF chars[p] = "." THEN p
  ELSE DotFrom(chars, p + 1)

\* amount.split('.')[0] and amount.split('.')[1] of a string that has a "."
WholePart(chars) == SubSeq(chars, 1, DotFrom(chars, 1) - 1)
FractionPart(chars) ==
  LET first == DotFrom(chars, 1)
      second == DotFrom(chars, first + 1)
  IN SubSeq(chars, first + 1, IF second = 0 THEN Len(chars) ELSE second - 1)

\* A slice that keeps the whole string
SliceKeepsAll(chars, n) == chars

\* s.slice(0, n)
SliceTo(chars, n) == SubSeq(chars, 1, IF Len(chars) < n THEN Len(chars) ELSE n)

\* s.replace(/^0+/, '')
RECURSIVE StripLeadingZeros(_)
StripLeadingZeros(chars) ==
  IF chars # <<>> /\ chars[1] = "0" THEN StripLeadingZeros(Tail(chars)) ELSE chars

\* s.replace(/(0+)$/, '')
RECURSIVE StripTrailingZeros(_)
StripTrailingZeros(chars) ==
  IF chars # <<>> /\ chars[Len(chars)] = "0"
  THEN StripTrailingZeros(SubSeq(chars, 1, Len(chars) - 1))
  ELSE chars

Zeros(n) == [k \in 1..n |-> "0"]

\* BigInt(sign + digits).toString()
BigIntToString(negative, digits) ==
  LET magnitude == StripLeadingZeros(digits)
  IN IF magnitude = <<>> THEN <<"0">>
     ELSE IF negative THEN <<"-">> \o magnitude
     ELSE magnitude

\* viem's parseUnits(whole + "." + fraction, 6) accepts -?[0-9]*\.?[0-9]*
\* and throws on anything else
ParseUnitsThrows(whole, fraction) ==
  LET negative == whole # <<>> /\ whole[1] = "-"
      integer == IF negative THEN Tail(whole) ELSE whole
  IN ~(AllDigits(integer) /\ AllDigits(fraction))

\* parseUnits(whole + "." + fraction, 6).toString(), fraction of at most 6
\* characters
ParseUnits6(whole, fraction) ==
  LET negative == whole # <<>> /\ whole[1] = "-"
      integer == IF negative THEN Tail(whole) ELSE whole
      trimmed == StripTrailingZeros(fraction)
      padded == trimmed \o Zeros(6 - Len(trimmed))
  IN BigIntToString(negative, integer \o padded)

\* `${fraction}000000`.slice(0, 6), then `${whole}${padded}`.replace(/^0+/, '') || '0'
ZeroPadAndConcatenate(whole, fraction) ==
  LET padded == SliceTo(fraction \o Zeros(6), 6)
      combined == StripLeadingZeros(whole \o padded)
  IN IF combined = <<>> THEN <<"0">> ELSE combined

\* A normalizer that shifts the decimal point of integer strings too
normalizeAtomicAmountScalingIntegers(amount) ==
  IF amount.isNull \/ amount.chars = <<>> THEN JsStrNull
  ELSE LET hasDot == DotFrom(amount.chars, 1) # 0
           whole == IF hasDot THEN WholePart(amount.chars) ELSE amount.chars
           fraction == IF hasDot THEN SliceTo(FractionPart(amount.chars), 6) ELSE <<>>
           padded == SliceTo(fraction \o Zeros(6), 6)
           combined == StripLeadingZeros(whole \o padded)
       IN IF ~ParseUnitsThrows(whole, fraction)
          THEN JsStr(ParseUnits6(whole, fraction))
          ELSE JsStr(IF combined = <<>> THEN <<"0">> ELSE combined)

normalizeAtomicAmount(amount) ==
  IF amount.isNull \/ amount.chars = <<>> THEN JsStrNull
  ELSE IF DotFrom(amount.chars, 1) = 0 THEN amount
  ELSE LET whole == WholePart(amount.chars)
           trimmedFraction == SliceTo(FractionPart(amount.chars), 6)
       IN IF ~ParseUnitsThrows(whole, trimmedFraction)
          THEN JsStr(ParseUnits6(whole, trimmedFraction))
          ELSE JsStr(ZeroPadAndConcatenate(whole, trimmedFraction))

\* A component normalizer that keeps the zeros in front
x402NormalizeAtomicAmountKeepingZeros(amount) ==
  IF amount.isNull \/ amount.chars = <<>> THEN JsStrNull
  ELSE IF DotFrom(amount.chars, 1) = 0 THEN amount
  ELSE LET whole == WholePart(amount.chars)
           fraction == FractionPart(amount.chars)
       IN JsStr(whole \o SliceTo(fraction \o Zeros(6), 6))

\* The component's own normalizeAtomicAmount, which has no parseUnits path
x402NormalizeAtomicAmount(amount) ==
  IF amount.isNull \/ amount.chars = <<>> THEN JsStrNull
  ELSE IF DotFrom(amount.chars, 1) = 0 THEN amount
  ELSE LET whole == WholePart(amount.chars)
           fraction == FractionPart(amount.chars)
       IN JsStr(ZeroPadAndConcatenate(whole, fraction))

----------------------------------------------------------------------------
(* paywall-helpers and utils: parseAmountDisplay and formatAmount.  A       *)
(* Number is kept as its decimal digits, which is what a double holds for  *)
(* up to 15 significant digits.                                            *)

ZeroDisplay == <<"0", ".", "0", "0">>

\* What a call gives back: a string, or an exception leaving the function
DisplayResult(chars) == [threw |-> FALSE, chars |-> chars]
DisplayThrows == [threw |-> TRUE, chars |-> <<>>]

\* BigInt(s), s without white space or radix prefix: a SyntaxError unless s
\* is decimal digits with an optional sign
BigIntThrows(chars) ==
  LET signed == chars # <<>> /\ chars[1] \in {"-", "+"}
      digits == IF signed THEN Tail(chars) ELSE chars
  IN ~AllDigits(digits) \/ (signed /\ digits = <<>>)

\* BigInt(s).toString()
BigIntString(chars) ==
  LET signed == chars # <<>> /\ chars[1] \in {"-", "+"}
  IN BigIntToString(chars # <<>> /\ chars[1] = "-", IF signed THEN Tail(chars) ELSE chars)

\* s.padStart(n, '0')
PadStart(chars, n) == Zeros(n - Len(chars)) \o chars

\* viem's formatUnits(value, decimals), value given by value.toString()
formatUnits(value, decimals) ==
  LET negative == value # <<>> /\ value[1] = "-"
      display == PadStart(IF negative THEN Tail(value) ELSE value, decimals)
      integer == SubSeq(display, 1, Len(display) - decimals)
      fraction ==
        StripTrailingZeros(SubSeq(display, Len(display) - decimals + 1, Len(display)))
  IN (IF negative THEN <<"-">> ELSE <<>>)
     \o (IF integer = <<>> THEN <<"0">> ELSE integer)
     \o (IF fraction = <<>> THEN <<>> ELSE <<".">> \o fraction)

\* Number.parseFloat(s) of a string -?digits(.digits)?
ParseFloat(chars) ==
  LET negative == chars # <<>> /\ chars[1] = "-"
      unsigned == IF negative THEN Tail(chars) ELSE chars
      dot == DotFrom(unsigned, 1)
  IN [negative |-> negative,
      integer |-> IF dot = 0 THEN unsigned ELSE SubSeq(unsigned, 1, dot - 1),
      fraction |-> IF dot = 0 THEN <<>> ELSE SubSeq(unsigned, dot + 1, Len(unsigned))]

\* Number.isNaN(amount): parseFloat found no digits
IsNaN(amount) == amount.integer = <<>> /\ amount.fraction = <<>>

\* amount >= 0.01
AtLeastCent(amount) ==
  /\ ~amount.negative
  /\ \/ StripLeadingZeros(amount.integer) # <<>>
     \/ SliceTo(amount.fraction \o Zeros(2), 2) # <<"0", "0">>

\* The decimal digits of n + 1
RECURSIVE Increment(_)
Increment(digits) ==
  IF digits = <<>> THEN <<"1">>
  ELSE LET init == SubSeq(digits, 1, Len(digits) - 1)
           last == digits[Len(digits)]
       IN IF last = "9" THEN Increment(init) \o <<"0">>
          ELSE init \o <<Digits[DigitValue(last) + 2]>>

\* String(n) of a natural number
RECURSIVE NatToChars(_)
NatToChars(n) ==
  IF n < 10 THEN <<Digits[n + 1]>>
  ELSE NatToChars(n \div 10) \o <<Digits[(n % 10) + 1]>>

\* Number.prototype.toString of a number of 10^21 or more: exponent notation
ExponentString(amount) ==
  LET mantissa == StripTrailingZeros(amount.integer)
  IN (IF amount.negative THEN <<"-">> ELSE <<>>)
     \o <<mantissa[1]>>
     \o (IF Len(mantissa) > 1 THEN <<".">> \o Tail(mantissa) ELSE <<>>)
     \o <<"e", "+">> \o NatToChars(Len(amount.integer) - 1)

\* The first number a toFixed call prints in exponent notation is 10^21
ToFixedLimitDigits == 22

\* amount.toFixed(digits).  A decimal tie (a 5 and nothing after it) is
\* decided by the binary value of the double, above or below the tie:
\* tieUp is that outcome.
ToFixed(amount, digits, tieUp) ==
  IF Len(amount.integer) >= ToFixedLimitDigits THEN ExponentString(amount)
  ELSE LET padded == amount.fraction \o Zeros(digits - Len(amount.fraction))
           kept == SubSeq(padded, 1, digits)
           rest == SubSeq(padded, digits + 1, Len(padded))
           up == /\ rest # <<>>
                 /\ \/ DigitValue(rest[1]) > 5
                    \/ /\ rest[1] = "5"
                       /\ (StripTrailingZeros(Tail(rest)) # <<>> \/ tieUp)
           scaled == amount.integer \o kept
           rounded == IF up THEN Increment(scaled) ELSE scaled
           integer == SubSeq(rounded, 1, Len(rounded) - digits)
       IN (IF amount.negative THEN <<"-">> ELSE <<>>)
          \o (IF integer = <<>> THEN <<"0">> ELSE integer)
          \o <<".">> \o SubSeq(rounded, Len(rounded) - digits + 1, Len(rounded))

\* s.replace(/\.?0+$/, '')
StripDotZeros(chars) ==
  LET stripped == StripTrailingZeros(chars)
  IN IF stripped = chars THEN chars
     ELSE IF stripped # <<>> /\ stripped[Len(stripped)] = "."
     THEN SubSeq(stripped, 1, Len(stripped) - 1)
     ELSE stripped

\* A formatAmount that always trims
formatAmountTrimmed(amount, tieUp) ==
  IF IsNaN(amount) THEN ZeroDisplay ELSE StripDotZeros(ToFixed(amount, 6, tieUp))

formatAmount(amount, tieUp) ==
  IF IsNaN(amount) THEN ZeroDisplay
  ELSE IF AtLeastCent(amount) THEN ToFixed(amount, 2, tieUp)
  ELSE StripDotZeros(ToFixed(amount, 6, tieUp))

\* The body of the try block of parseAmountDisplay
parseAmountDisplayTry(amountAtomic, tieUp) ==
  LET result == normalizeAtomicAmount(amountAtomic)
      normalized == IF result.isNull THEN amountAtomic ELSE result
  IN IF BigIntThrows(normalized.chars) THEN DisplayThrows
     ELSE DisplayResult(
            formatAmount(ParseFloat(formatUnits(BigIntString(normalized.chars), 6)), tieUp))

\* A parseAmountDisplay without its catch
parseAmountDisplayUncaught(amountAtomic, tieUp) ==
  IF amountAtomic.isNull \/ amountAtomic.chars = <<>> THEN DisplayResult(ZeroDisplay)
  ELSE parseAmountDisplayTry(amountAtomic, tieUp)

parseAmountDisplay(amountAtomic, tieUp) ==
  IF amountAtomic.isNull \/ amountAtomic.chars = <<>> THEN DisplayResult(ZeroDisplay)
  ELSE LET attempt == parseAmountDisplayTry(amountAtomic, tieUp)
       IN IF attempt.threw THEN DisplayResult(ZeroDisplay) ELSE attempt

----------------------------------------------------------------------------
(* Inputs of the two actions: the values their closures captured *)

\* requirement.maxTimeoutSeconds: a number of seconds, or nothing
Seconds(n) == [set |-> TRUE, seconds |-> n]
SecondsUnset == [set |-> FALSE, seconds |-> 0]

\* requestInit: undefined, or an object by its own keys.  Its headers are
\* a record of names and values; the other options are JavaScript values.
NoRequestInit == [defined |-> FALSE, options |-> <<>>]
RequestInit(options) == [defined |-> TRUE, options |-> options]

\* A header value that is plain text
HeaderText(text) == [text |-> text]

ValidInput ==
  [accountAddress |-> JsString("0xabc"), hasRequirement |-> TRUE, hasResolvedChain |-> TRUE,
   chainId |-> 84532, chainName |-> "Base Sepolia",
   x402Version |-> 1, scheme |-> "exact", network |-> "eip155:84532",
   maxTimeoutSeconds |-> Seconds(3600), requestInit |-> NoRequestInit,
   payTo |-> "0xdead", asset |-> "0x036C", amountAtomic |-> JsStr(<<"2", "5", "0", "0">>),
   extraName |-> JsString("USD Coin"), extraVersion |-> JsString("2"),
   accountStatus |-> "connected"]

\* !amountAtomic
AmountMissing(amountAtomic) == amountAtomic.isNull \/ amountAtomic.chars = <<>>

SignInputs ==
  {ValidInput,
   [ValidInput EXCEPT !.accountAddress = JsUndefined],
   [ValidInput EXCEPT !.accountAddress = JsUndefined, !.hasRequirement = FALSE],
   [ValidInput EXCEPT !.hasRequirement = FALSE],
   [ValidInput EXCEPT !.hasResolvedChain = FALSE],
   [ValidInput EXCEPT !.hasResolvedChain = FALSE, !.payTo = ""],
   [ValidInput EXCEPT !.payTo = ""],
   [ValidInput EXCEPT !.asset = ""],
   [ValidInput EXCEPT !.amountAtomic = JsStrNull],
   [ValidInput EXCEPT !.amountAtomic = JsStr(<<>>)],
   [ValidInput EXCEPT !.amountAtomic = JsStr(<<>>), !.extraName = JsUndefined],
   [ValidInput EXCEPT !.extraName = JsUndefined],
   [ValidInput EXCEPT !.extraName = JsNumber("2")],
   [ValidInput EXCEPT !.extraName = JsString("")],
   [ValidInput EXCEPT !.extraVersion = JsUndefined],
   [ValidInput EXCEPT !.extraVersion = JsString("")]}

ConnectInputs ==
  {[ValidInput EXCEPT !.accountStatus = "disconnected"],
   [ValidInput EXCEPT !.accountStatus = "connecting"],
   ValidInput,
   [ValidInput EXCEPT !.accountStatus = "disconnected", !.hasResolvedChain = FALSE],
   [ValidInput EXCEPT !.hasResolvedChain = FALSE]}

MsgWalletNotConnected == "Wallet not connected."
MsgMissingRequirement == "Missing payment requirement or chain configuration."
MsgMissingFields == "Payment requirement missing required fields."
MsgMissingDomain == "Payment requirement missing EIP-712 domain details."
MsgMissingChain == "Missing chain configuration for this payment."

\* Entry guards that forget the EIP-712 domain check
SignGuardWithoutDomain(in) ==
  IF Falsy(in.accountAddress) THEN MsgWalletNotConnected
  ELSE IF ~in.hasRequirement \/ ~in.hasResolvedChain THEN MsgMissingRequirement
  ELSE IF in.payTo = "" \/ AmountMissing(in.amountAtomic) \/ in.asset = "" THEN MsgMissingFields
  ELSE ""

\* signPayment lines 478-500: the message of the first entry guard that
\* rejects the input, "" when all of them pass.
SignGuard(in) ==
  LET domainName == IF in.extraName.t = "string" THEN in.extraName.v ELSE ""
      domainVersion == IF in.extraVersion.t = "string" THEN in.extraVersion.v ELSE ""
  IN IF Falsy(in.accountAddress) THEN MsgWalletNotConnected
     ELSE IF ~in.hasRequirement \/ ~in.hasResolvedChain THEN MsgMissingRequirement
     ELSE IF in.payTo = "" \/ AmountMissing(in.amountAtomic) \/ in.asset = "" THEN MsgMissingFields
     ELSE IF domainName = "" \/ domainVersion = "" THEN MsgMissingDomain
     ELSE ""

----------------------------------------------------------------------------
(* HTTP responses: what fetch resolves with *)

JsonObjectBody(message) == [kind |-> "object", message |-> message]
JsonNullBody == [kind |-> "null", message |-> JsUndefined]
TextBody == [kind |-> "text", message |-> JsUndefined]
EmptyBody == [kind |-> "empty", message |-> JsUndefined]

ResponseBodies ==
  {JsonObjectBody(JsUndefined), JsonObjectBody(JsString("")),
   JsonObjectBody(JsString("Insufficient funds")),
   JsonObjectBody(JsString("Payment declined: user rejected terms")),
   JsonNullBody, TextBody, EmptyBody}

UnparsableBodies == {body \in ResponseBodies : body.kind \in {"text", "empty"}}

Response(ok, body) == [ok |-> ok, body |-> body]
NoResponse == [ok |-> FALSE, body |-> [kind |-> "none", message |-> JsUndefined]]

\* response.json(): reads the whole body, then parses it
JsonParses(body) == body.kind \in {"object", "null"}

\* response.text() called after response.json() failed: the body of a fetch
\* Response is a stream that json() has already read, so text() rejects with
\* a TypeError unless the response has no body at all.
TextAfterJsonResolves(body) == body.kind = "empty"
TypeErrorBodyUsed == NewError("Body is unusable: Body has already been read")

MsgVerificationFailed == "Payment verification failed"
MsgRejectedByUser == "Transaction rejected by user"
MsgConnectionRejected == "Connection rejected by user"
MsgConnectFailed == "Failed to connect wallet"

Signatures == {"0xsig"}

----------------------------------------------------------------------------
(* State *)

VARIABLES
  actionLockRef,   \* useActionLock: actionLockRef.current
  actionNonceRef,  \* useActionLock: actionNonceRef.current
  isActionBusy,    \* useActionLock: the isActionBusy state
  state,           \* usePaywallStatus: the reducer's PaywallState
  inv,             \* the invocations of signPayment / connectWithConnector that are
                   \* suspended at an await, oldest first
  returned,        \* the invocation that returned in the last step, if one did
  lockCalls,       \* useActionLock driven directly: the calls made on the lock so
                   \* far, each with what it returned
  balanceParams,   \* useBalanceData: the params of the hook
  balanceQuery,    \* useBalanceData: the useReadContracts query (its request, its
                   \* data) and what the chains answered
  connectedAddress,   \* X402Paywall: the connectedAddress state ("" for null)
  paywallBalances,    \* X402Paywall: the balances state
  isLoadingBalances,  \* X402Paywall: the isLoadingBalances state
  fetchCalls,      \* X402Paywall: the invocations of fetchBalances, in call order
  component,       \* X402Paywall: the status, errorMessage, processingText and
                   \* providerInfo states, and how many of its actions were called
  componentActions,   \* X402Paywall: the invocations of connectInjected,
                      \* connectWalletConnect and signPayment suspended at an await
  helperCall       \* a helper function called on its own: its arguments, and its
                   \* result once it has returned

\* The state of the X402Paywall component
componentVars == <<connectedAddress, paywallBalances, isLoadingBalances, fetchCalls>>

\* The state of the component's own connect and payment actions
componentActionVars == <<component, componentActions>>

vars ==
  <<actionLockRef, actionNonceRef, isActionBusy, state, inv, returned, lockCalls,
    balanceParams, balanceQuery, componentVars, componentActionVars, helperCall>>

\* What the two actions of the hooks never touch
outsideActions ==
  <<lockCalls, balanceParams, balanceQuery, componentVars, componentActionVars, helperCall>>

\* What a lock that is driven directly never touches
outsideLock ==
  <<state, inv, returned, balanceParams, balanceQuery, componentVars, componentActionVars,
    helperCall>>

NoThrown == Thrown(FALSE, FALSE, FALSE, "none", 0, "", JsUndefined)

\* An invocation in flight: the values its closure captured (input), the
\* await it is suspended at (pc), the token beginAction gave it, the
\* signature it holds and the effects it has performed so far, in order.
Invocation(kind, in, pc, actionId, signature, lg) ==
  [kind |-> kind, input |-> in, pc |-> pc, actionId |-> actionId,
   signature |-> signature, log |-> lg]

\* What is recorded of an invocation when it returns:
\*   exit     : guard | already | busy | completed | stale | caught | escaped
\*   wasStale : its token was stale when its last step began
\*   thrown, failedAt : the value its catch block received, and from where
\*   log      : everything it did;  fx : what it did in its last step
Returned(kind, exit, in, actionId, wasStale, response, thrown, failedAt, lg, fxs) ==
  [kind |-> kind, exit |-> exit, input |-> in, actionId |-> actionId,
   wasStale |-> wasStale, response |-> response, thrown |-> thrown,
   failedAt |-> failedAt, log |-> lg, fx |-> fxs]

NoReturn ==
  Returned("none", "", ValidInput, 0, FALSE, NoResponse, NoThrown, "", <<>>, <<>>)

\* useBalanceData mounted with nothing to show
NoBalanceParams ==
  [accepts |-> <<>>,
   chainConfig |-> [defined |-> FALSE, chainId |-> 0, name |-> "", usdcAddress |-> ""],
   chainConfigs |-> [defined |-> FALSE, map |-> <<>>],
   address |-> "", showBalances |-> FALSE]

\* The query before any request: no data
IdleQuery == [status |-> "idle", contracts |-> <<>>, hasData |-> FALSE, data |-> <<>>,
              reads |-> <<>>]

\* The hooks after their first render
HooksInit ==
  /\ actionLockRef = FALSE
  /\ actionNonceRef = 0
  /\ isActionBusy = FALSE
  /\ state = InitialPaywallState
  /\ inv = <<>>
  /\ returned = NoReturn
  /\ lockCalls = <<>>
  /\ balanceQuery = IdleQuery

\* Paywall.tsx lines 184-190: the useState values of the first render
InitialComponent ==
  [status |-> "connect", errorMessage |-> "", processingText |-> DEFAULT_PROCESSING_TEXT,
   providerInfo |-> "", calls |-> 0]

\* The component after its first render
ComponentInit ==
  /\ component = InitialComponent
  /\ componentActions = <<>>
  /\ connectedAddress = ""
  /\ paywallBalances = <<>>
  /\ isLoadingBalances = FALSE
  /\ fetchCalls = <<>>

\* No helper function is being called on its own
NoCall == [fn |-> "", args |-> <<>>, returned |-> FALSE, result |-> <<>>]

Init ==
  /\ HooksInit
  /\ ComponentInit
  /\ balanceParams = NoBalanceParams
  /\ helperCall = NoCall

----------------------------------------------------------------------------
(* Steps shared by the two actions *)

Stale(i) == isActionStale(actionNonceRef, inv[i].actionId)

\* The caller invokes one of the two actions.
Called == returned = NoReturn

\* The call invocation i awaits at pc settles and i resumes.  (An async
\* function's promise settles in the microtask that follows its return,
\* before any other task runs: see PromiseSettles.)
Resumes(i, pc) ==
  /\ returned = NoReturn
  /\ i \in DOMAIN inv
  /\ inv[i].pc = pc

\* The invocation stays suspended at the await named pc.
Suspend(i, pc, st, fxs, signature) ==
  /\ inv' = [inv EXCEPT ![i] = Invocation(@.kind, @.input, pc, @.actionId, signature,
                                           @.log \o fxs)]
  /\ state' = st
  /\ returned' = NoReturn
  /\ UNCHANGED <<actionLockRef, actionNonceRef, isActionBusy>>
  /\ UNCHANGED outsideActions

\* The invocation leaves its try block: finally { endAction() }.
Finally(i, exit, st, fxs, response, thrown, failedAt) ==
  LET ends == IF FinallyRuns(exit) THEN <<Fx("endAction", "")>> ELSE <<>>
  IN /\ inv' = SubSeq(inv, 1, i - 1) \o SubSeq(inv, i + 1, Len(inv))
     /\ state' = st
     /\ returned' = Returned(inv[i].kind, exit, inv[i].input, inv[i].actionId, Stale(i),
                             response, thrown, failedAt,
                             inv[i].log \o fxs \o ends, fxs \o ends)
     /\ actionLockRef' = IF FinallyRuns(exit) THEN endAction.lock ELSE actionLockRef
     /\ isActionBusy' = IF FinallyRuns(exit) THEN endAction.busy ELSE isActionBusy
     /\ UNCHANGED actionNonceRef
     /\ UNCHANGED outsideActions

\* if (isActionStale(actionId)) return;
StaleReturn(i) == Finally(i, "stale", state, <<>>, NoResponse, NoThrown, "")

\* The invocation returns before beginAction gave it a token.
ReturnEarly(kind, in, exit, st, fxs) ==
  /\ state' = st
  /\ returned' = Returned(kind, exit, in, 0, FALSE, NoResponse, NoThrown, "", fxs, fxs)
  /\ UNCHANGED <<actionLockRef, actionNonceRef, isActionBusy, inv>>
  /\ UNCHANGED outsideActions

\* beginAction gave a token: the invocation runs up to its first await.
Begin(kind, in, pc, b, st, fxs) ==
  /\ Len(inv) < MaxInvocations
  /\ b.nonce <= MaxNonce
  /\ inv' = Append(inv, Invocation(kind, in, pc, b.token, "",
                                   <<Fx("beginAction", "")>> \o fxs))
  /\ state' = st
  /\ returned' = NoReturn
  /\ actionLockRef' = b.lock
  /\ actionNonceRef' = b.nonce
  /\ isActionBusy' = b.busy
  /\ UNCHANGED outsideActions

\* (err as Error).message || fallback
MessageOr(err, fallback) ==
  IF err.message.t = "string" /\ err.message.v # "" THEN err.message.v ELSE fallback

\* A parameter the step does not read is fixed, so that each behaviour of
\* the code is generated once.
Unread(cond, param, default) == cond => param = default

----------------------------------------------------------------------------
(* usePaymentSubmission.signPayment *)

\* The catch block, lines 598-603.  escapes: the block itself threw, either
\* reading .message of null / undefined or inside onError.
SignCatch(st, err, cb) ==
  IF isUserRejection(err)
  THEN LET r == showError(st, MsgRejectedByUser, err, cb)
       IN [state |-> r.state, fx |-> r.fx, escapes |-> r.threw]
  ELSE IF err.nullish
  THEN [state |-> st, fx |-> <<>>, escapes |-> TRUE]
  ELSE LET r == showError(st, MessageOr(err, GenericFailureText), err, cb)
       IN [state |-> r.state, fx |-> r.fx, escapes |-> r.threw]

SignFail(i, st, fxs, response, err, cb, at) ==
  LET c == SignCatch(st, err, cb)
  IN /\ Unread(err.nullish, cb, "returns")
     /\ Finally(i, IF c.escapes THEN "escaped" ELSE "caught", c.state, fxs \o c.fx,
                response, err, at)

\* `Please switch to ${config.name} in your wallet.`
SwitchGuidance(name) ==
  CASE name = "Base Sepolia" -> "Please switch to Base Sepolia in your wallet."
    [] name = "Base" -> "Please switch to Base in your wallet."
    [] OTHER -> "Please switch to the payment network in your wallet."

\* ensureChain's catch, lines 467-472: the error it rethrows
EnsureChainError(switchError, config) ==
  IF switchError.nullish THEN TypeErrorNullRead
  ELSE NewError(MessageOr(switchError, SwitchGuidance(config.chainName)))

PrepareOutcomes == {"ok", "badAddress", "badAmount", "invalidTypedData"}

\* signPayment up to its first await (lines 478-508)
SignPaymentCall(in, chainMatches, cb) ==
  /\ Called
  /\ LET g == SignGuard(in)
         r == showError(state, g, ThrownNullish, cb)
         b == beginAction(actionLockRef, actionNonceRef, isActionBusy)
         st == setProcessingText(setStatus(state, "processing"), "Checking network...")
         fxs == <<Fx("setStatus", "processing"),
                  Fx("setProcessingText", "Checking network...")>>
     IN IF g # ""
        THEN /\ Unread(TRUE, chainMatches, TRUE)
             /\ ReturnEarly("signPayment", in, IF r.threw THEN "escaped" ELSE "guard",
                            r.state, r.fx)
        ELSE IF ~b.taken
        THEN /\ Unread(TRUE, chainMatches, TRUE) /\ Unread(TRUE, cb, "returns")
             /\ ReturnEarly("signPayment", in, "busy", state, <<>>)
        ELSE /\ Unread(TRUE, cb, "returns")
             /\ IF chainMatches
                THEN Begin("signPayment", in, "awaitEnsureChain", b, st, fxs)
                ELSE Begin("signPayment", in, "awaitSwitchChain", b, st,
                           fxs \o <<Fx("switchChain", "")>>)

\* An effect that carries the value it was performed with
FxWith(op, arg, data) == [op |-> op, arg |-> arg, data |-> data]

DEFAULT_TIMEOUT_SECONDS == 3600
CLOCK_SKEW_SECONDS == 600

\* What the preparation reads from outside its closure: Date.now() in
\* milliseconds, and the 32 random bytes as toHex prints them
Reading(nowMs, nonce) == [nowMs |-> nowMs, nonce |-> nonce]

DefaultReading == Reading(1234567, "0x1f")

\* viem's getAddress: the checksummed form of an address
getAddress(address) == [checksum |-> address]

\* String(n) of an integer
IntToChars(n) == IF n < 0 THEN <<"-">> \o NatToChars(0 - n) ELSE NatToChars(n)

\* A BigInt, by its decimal digits; BigInt(n) of an integer Number
JsBigInt(chars) == [bigint |-> chars]
BigIntOfNumber(n) == JsBigInt(IntToChars(n))

\* Line 518: Math.floor(Date.now() / 1000)
NowSeconds(nowMs) == nowMs \div 1000

\* A timeout that falls back on every falsy value
TimeoutOrDefault(maxTimeoutSeconds) ==
  IF maxTimeoutSeconds.set /\ maxTimeoutSeconds.seconds # 0
  THEN maxTimeoutSeconds.seconds
  ELSE DEFAULT_TIMEOUT_SECONDS

\* Line 517: requirement.maxTimeoutSeconds ?? DEFAULT_TIMEOUT_SECONDS
TimeoutSeconds(maxTimeoutSeconds) ==
  IF maxTimeoutSeconds.set THEN maxTimeoutSeconds.seconds ELSE DEFAULT_TIMEOUT_SECONDS

\* Lines 512-536: the message to sign
TransferMessage(in, reading) ==
  LET result == normalizeAtomicAmount(in.amountAtomic)
      normalizedAmount == IF result.isNull THEN in.amountAtomic ELSE result
      now == NowSeconds(reading.nowMs)
  IN [from |-> getAddress(in.accountAddress.v),
      to |-> getAddress(in.payTo),
      value |-> JsBigInt(BigIntString(normalizedAmount.chars)),
      validAfter |-> BigIntOfNumber(now - CLOCK_SKEW_SECONDS),
      validBefore |-> BigIntOfNumber(now + TimeoutSeconds(in.maxTimeoutSeconds)),
      nonce |-> reading.nonce]

\* Lines 523-528: the EIP-712 domain
TransferDomain(in) ==
  [name |-> in.extraName.v, version |-> in.extraVersion.v, chainId |-> in.chainId,
   verifyingContract |-> getAddress(in.asset)]

buildTransferAuthorizationTypedData(domain, message) ==
  [domain |-> domain, primaryType |-> "TransferWithAuthorization", message |-> message]

\* The typed data the invocation asked the wallet to sign
TypedDataOf(lg) == lg[CHOOSE k \in DOMAIN lg : lg[k].op = "signTypedData"].data

\* utils: encodeBase64Json, btoa(JSON.stringify(value))
JsonStringify(value) == [json |-> value]
Btoa(text) == [base64 |-> text]
encodeBase64Json(value) == Btoa(JsonStringify(value))

\* A payload that carries the amount as the requirement wrote it
paymentPayloadWithRawAmount(in, message, signature) ==
  [x402Version |-> in.x402Version, scheme |-> in.scheme, network |-> in.network,
   payload |->
     [signature |-> signature,
      authorization |->
        [from |-> message.from, to |-> message.to,
         value |-> in.amountAtomic.chars,
         validAfter |-> message.validAfter.bigint,
         validBefore |-> message.validBefore.bigint,
         nonce |-> message.nonce]]]

\* Lines 548-565; x.toString() of a BigInt is its decimal digits
paymentPayload(in, message, signature) ==
  [x402Version |-> in.x402Version, scheme |-> in.scheme, network |-> in.network,
   payload |->
     [signature |-> signature,
      authorization |->
        [from |-> message.from, to |-> message.to,
         value |-> message.value.bigint,
         validAfter |-> message.validAfter.bigint,
         validBefore |-> message.validBefore.bigint,
         nonce |-> message.nonce]]]

\* Header names are case-insensitive: Headers keeps them in lower case
LowerName(name) ==
  CASE name = "Accept" -> "accept"
    [] name = "Authorization" -> "authorization"
    [] name = "X-PAYMENT-SIGNATURE" -> "x-payment-signature"
    [] name = "X-Payment-Signature" -> "x-payment-signature"
    [] name = "PAYMENT-SIGNATURE" -> "payment-signature"
    [] OTHER -> name

\* new Headers(requestInit?.headers), for names that differ beyond case
NewHeaders(requestInit) ==
  IF ~requestInit.defined \/ "headers" \notin DOMAIN requestInit.options THEN <<>>
  ELSE LET init == requestInit.options["headers"]
       IN [n \in {LowerName(k) : k \in DOMAIN init} |->
             init[CHOOSE k \in DOMAIN init : LowerName(k) = n]]

\* headers.set(name, value)
HeadersSet(headers, name, value) ==
  [n \in DOMAIN headers \cup {LowerName(name)} |->
     IF n = LowerName(name) THEN value ELSE headers[n]]

\* Headers that start empty instead of from the caller's
PaymentHeadersOnly(requestInit, paymentHeader) ==
  HeadersSet(HeadersSet(HeadersSet(<<>>, "X-PAYMENT-SIGNATURE", paymentHeader),
                        "PAYMENT-SIGNATURE", paymentHeader),
             "Accept", HeaderText("application/json"))

\* Lines 567-570
PaymentHeaders(requestInit, paymentHeader) ==
  HeadersSet(HeadersSet(HeadersSet(NewHeaders(requestInit),
                                   "X-PAYMENT-SIGNATURE", paymentHeader),
                        "PAYMENT-SIGNATURE", paymentHeader),
             "Accept", HeaderText("application/json"))

\* Lines 574-576: { method: requestInit?.method || 'GET', ...requestInit, headers }
FetchInit(requestInit, headers) ==
  LET options == requestInit.options
      method == IF requestInit.defined /\ "method" \in DOMAIN options
                   /\ ~Falsy(options["method"])
                THEN options["method"] ELSE JsString("GET")
  IN [k \in {"method", "headers"} \cup DOMAIN options |->
        IF k = "headers" THEN headers
        ELSE IF k \in DOMAIN options THEN options[k]
        ELSE method]

CurrentUrl == "https://api.example/resource"

\* Lines 566-577: the request the invocation replays
PaymentRequest(in, message, signature) ==
  LET paymentHeader == encodeBase64Json(paymentPayload(in, message, signature))
  IN [url |-> CurrentUrl,
      init |-> FetchInit(in.requestInit, PaymentHeaders(in.requestInit, paymentHeader))]

\* A preparation that asks for the signature without validating
PrepareWithoutValidation(i, prep, cb, reading) ==
  LET t1 == "Preparing payment..."
      t2 == "Please sign in your wallet..."
      st1 == setProcessingText(state, t1)
      st2 == setProcessingText(st1, t2)
      fx1 == <<Fx("setProcessingText", t1)>>
      fx2 == fx1 \o <<FxWith("Date.now", "", reading.nowMs),
                      Fx("setProcessingText", t2)>>
      typedData ==
        buildTransferAuthorizationTypedData(TransferDomain(inv[i].input),
                                            TransferMessage(inv[i].input, reading))
  IN IF Stale(i)
     THEN /\ Unread(TRUE, prep, "ok") /\ Unread(TRUE, cb, "returns")
          /\ Unread(TRUE, reading, DefaultReading)
          /\ StaleReturn(i)
     ELSE IF prep = "badAddress"
     THEN /\ Unread(TRUE, reading, DefaultReading)
          /\ SignFail(i, st1, fx1, NoResponse, NewError("Address is invalid."), cb,
                      "prepare")
     ELSE IF prep = "badAmount"
     THEN /\ Unread(TRUE, reading, DefaultReading)
          /\ SignFail(i, st1, fx1, NoResponse,
                      NewError("Cannot convert amount to a BigInt"), cb, "prepare")
     ELSE /\ Unread(TRUE, cb, "returns")
          /\ Unread(prep # "ok", reading, DefaultReading)
          /\ Suspend(i, "awaitSignature", st2,
                     fx2 \o <<FxWith("signTypedData", "", typedData)>>, "")

\* Lines 509-544: from the return of ensureChain to the signature request
Prepare(i, prep, cb, reading) ==
  LET t1 == "Preparing payment..."
      t2 == "Please sign in your wallet..."
      st1 == setProcessingText(state, t1)
      st2 == setProcessingText(st1, t2)
      fx1 == <<Fx("setProcessingText", t1)>>
      fx2 == fx1 \o <<FxWith("Date.now", "", reading.nowMs),
                      Fx("setProcessingText", t2), Fx("validateTypedData", "")>>
      typedData ==
        buildTransferAuthorizationTypedData(TransferDomain(inv[i].input),
                                            TransferMessage(inv[i].input, reading))
  IN IF Stale(i)
     THEN /\ Unread(TRUE, prep, "ok") /\ Unread(TRUE, cb, "returns")
          /\ Unread(TRUE, reading, DefaultReading)
          /\ StaleReturn(i)
     ELSE IF prep = "badAddress"
     THEN /\ Unread(TRUE, reading, DefaultReading)
          /\ SignFail(i, st1, fx1, NoResponse, NewError("Address is invalid."), cb,
                      "prepare")
     ELSE IF prep = "badAmount"
     THEN /\ Unread(TRUE, reading, DefaultReading)
          /\ SignFail(i, st1, fx1, NoResponse,
                      NewError("Cannot convert amount to a BigInt"), cb, "prepare")
     ELSE IF prep = "invalidTypedData"
     THEN /\ Unread(TRUE, reading, DefaultReading)
          /\ SignFail(i, st2, fx2, NoResponse, NewError("Invalid typed data."), cb,
                      "validateTypedData")
     ELSE /\ Unread(TRUE, cb, "returns")
          /\ Suspend(i, "awaitSignature", st2,
                     fx2 \o <<FxWith("signTypedData", "", typedData)>>, "")

\* ensureChain returned without a switch (line 464)
EnsureChainReturns(i, prep, cb, reading) ==
  /\ Resumes(i, "awaitEnsureChain")
  /\ Prepare(i, prep, cb, reading)

SwitchChainResolves(i, prep, cb, reading) ==
  /\ Resumes(i, "awaitSwitchChain")
  /\ Prepare(i, prep, cb, reading)

SwitchChainRejects(i, e, cb) ==
  /\ Resumes(i, "awaitSwitchChain")
  /\ SignFail(i, state, <<>>, NoResponse, EnsureChainError(e, inv[i].input), cb,
              "switchChain")

\* Lines 545-577
SignatureResolves(i, sig) ==
  /\ Resumes(i, "awaitSignature")
  /\ LET t == "Submitting payment..."
         request == PaymentRequest(inv[i].input, TypedDataOf(inv[i].log).message, sig)
     IN IF Stale(i) THEN StaleReturn(i)
        ELSE Suspend(i, "awaitFetch", setProcessingText(state, t),
                     <<Fx("setProcessingText", t), FxWith("fetch", sig, request)>>, sig)

\* A rejection of the signature request that is swallowed: the request is
\* replayed without a signature
SignatureRejectionSwallowed(i, e, cb) ==
  /\ Resumes(i, "awaitSignature")
  /\ Unread(TRUE, cb, "returns")
  /\ Suspend(i, "awaitFetch", state, <<Fx("fetch", "")>>, "")

SignatureRejects(i, e, cb) ==
  /\ Resumes(i, "awaitSignature")
  /\ SignFail(i, state, <<>>, NoResponse, e, cb, "signTypedData")

\* Lines 578-590: the response arrived; both branches read it with json()
FetchResolves(i, ok) ==
  /\ Resumes(i, "awaitFetch")
  /\ IF Stale(i)
     THEN Unread(TRUE, ok, TRUE) /\ StaleReturn(i)
     ELSE Suspend(i, IF ok THEN "awaitJson" ELSE "awaitErrorJson", state,
                  <<Fx("response.json", "")>>, inv[i].signature)

FetchRejects(i, e, cb) ==
  /\ Resumes(i, "awaitFetch")
  /\ SignFail(i, state, <<>>, NoResponse, e, cb, "fetch")

\* Lines 581-585: the error thrown for a non-2xx response
VerificationError(body) ==
  IF JsonParses(body) /\ body.kind = "null" THEN TypeErrorNullRead
  ELSE LET message == IF JsonParses(body) THEN body.message ELSE JsUndefined
       IN NewError(IF Falsy(message) THEN MsgVerificationFailed ELSE message.v)

ErrorJsonSettles(i, body, cb) ==
  /\ Resumes(i, "awaitErrorJson")
  /\ SignFail(i, state, <<>>, Response(FALSE, body), VerificationError(body), cb,
              "response")

\* The value handed to onSuccess
ParsedResult(body) ==
  CASE body.kind = "object" -> "json:object"
    [] body.kind = "null" -> "json:null"
    [] body.kind = "empty" -> "text:"
    [] OTHER -> "text:raw"

\* A success that does not test the token again (line 594 left out)
SucceedWithoutStaleTest(i, body, thrownBySuccess, cb) ==
  LET st == setStatus(state, "success")
      fxs == <<Fx("setStatus", "success"), Fx("onSuccess", ParsedResult(body))>>
  IN IF thrownBySuccess = NoThrown
     THEN /\ Unread(TRUE, cb, "returns")
          /\ Finally(i, "completed", st, fxs, Response(TRUE, body), NoThrown, "")
     ELSE SignFail(i, st, fxs, Response(TRUE, body), thrownBySuccess, cb, "onSuccess")

\* Lines 594-597
Succeed(i, body, thrownBySuccess, cb) ==
  LET st == setStatus(state, "success")
      fxs == <<Fx("setStatus", "success"), Fx("onSuccess", ParsedResult(body))>>
  IN IF Stale(i)
     THEN /\ Unread(TRUE, thrownBySuccess, NoThrown) /\ Unread(TRUE, cb, "returns")
          /\ StaleReturn(i)
     ELSE IF thrownBySuccess = NoThrown
     THEN /\ Unread(TRUE, cb, "returns")
          /\ Finally(i, "completed", st, fxs, Response(TRUE, body), NoThrown, "")
     ELSE SignFail(i, st, fxs, Response(TRUE, body), thrownBySuccess, cb, "onSuccess")

\* Lines 588-593
JsonSettles(i, body, thrownBySuccess, cb) ==
  /\ Resumes(i, "awaitJson")
  /\ IF JsonParses(body) THEN Succeed(i, body, thrownBySuccess, cb)
     ELSE /\ Unread(TRUE, thrownBySuccess, NoThrown) /\ Unread(TRUE, cb, "returns")
          /\ Unread(TRUE, body, TextBody)
          /\ Suspend(i, "awaitText", state, <<Fx("response.text", "")>>, inv[i].signature)

TextSettles(i, body, thrownBySuccess, cb) ==
  /\ Resumes(i, "awaitText")
  /\ ~JsonParses(body)
  /\ IF TextAfterJsonResolves(body)
     THEN Succeed(i, body, thrownBySuccess, cb)
     ELSE /\ Unread(TRUE, thrownBySuccess, NoThrown)
          /\ SignFail(i, state, <<>>, Response(TRUE, body), TypeErrorBodyUsed, cb, "response")

----------------------------------------------------------------------------
(* useConnectorConnect.connectWithConnector *)

\* What the caller's callbacks may throw
CallbackThrows == {ThrownBoom, ThrownNullish, ThrownRejectionText}
CallbackOutcomes == {NoThrown} \cup CallbackThrows

\* A catch block that treats a duplicate connect as any other failure
ConnectCatchWithoutAlreadyConnected(st, err, connectedThrew, cb) ==
  IF isUserRejection(err)
  THEN LET r == showError(st, MsgConnectionRejected, err, cb)
       IN [state |-> r.state, fx |-> r.fx, escapes |-> r.threw]
  ELSE IF err.nullish
  THEN [state |-> st, fx |-> <<>>, escapes |-> TRUE]
  ELSE LET r == showError(st, MessageOr(err, MsgConnectFailed), err, cb)
       IN [state |-> r.state, fx |-> r.fx, escapes |-> r.threw]

\* The catch block, lines 407-414.  connectedThrew: onConnected, called from
\* the catch block, threw.
ConnectCatch(st, err, connectedThrew, cb) ==
  IF isAlreadyConnected(err)
  THEN [state |-> st, fx |-> <<Fx("onConnected", "")>>, escapes |-> connectedThrew]
  ELSE IF isUserRejection(err)
  THEN LET r == showError(st, MsgConnectionRejected, err, cb)
       IN [state |-> r.state, fx |-> r.fx, escapes |-> r.threw]
  ELSE IF err.nullish
  THEN [state |-> st, fx |-> <<>>, escapes |-> TRUE]
  ELSE LET r == showError(st, MessageOr(err, MsgConnectFailed), err, cb)
       IN [state |-> r.state, fx |-> r.fx, escapes |-> r.threw]

ConnectFail(i, st, fxs, err, connectedThrew, cb, at) ==
  LET c == ConnectCatch(st, err, connectedThrew, cb)
  IN /\ Unread(~isAlreadyConnected(err), connectedThrew, FALSE)
     /\ Unread(isAlreadyConnected(err) \/ err.nullish, cb, "returns")
     /\ Finally(i, IF c.escapes THEN "escaped" ELSE "caught", c.state, fxs \o c.fx,
                NoResponse, err, at)

\* connectWithConnector up to its await (lines 385-400)
ConnectCall(in, thrownByConnected, cb) ==
  /\ Called
  /\ LET r == showError(state, MsgMissingChain, ThrownNullish, cb)
         b == beginAction(actionLockRef, actionNonceRef, isActionBusy)
         t == "Connecting MetaMask..."
     IN IF ~in.hasResolvedChain
        THEN /\ Unread(TRUE, thrownByConnected, NoThrown)
             /\ ReturnEarly("connectWithConnector", in,
                            IF r.threw THEN "escaped" ELSE "guard", r.state, r.fx)
        ELSE IF in.accountStatus = "connected"
        THEN /\ Unread(TRUE, cb, "returns")
             /\ ReturnEarly("connectWithConnector", in,
                            IF thrownByConnected = NoThrown THEN "already" ELSE "escaped",
                            state, <<Fx("onConnected", "")>>)
        ELSE IF ~b.taken
        THEN /\ Unread(TRUE, thrownByConnected, NoThrown) /\ Unread(TRUE, cb, "returns")
             /\ ReturnEarly("connectWithConnector", in, "busy", state, <<>>)
        ELSE /\ Unread(TRUE, thrownByConnected, NoThrown) /\ Unread(TRUE, cb, "returns")
             /\ Begin("connectWithConnector", in, "awaitConnect", b,
                      setProcessingText(setStatus(state, "processing"), t),
                      <<Fx("setStatus", "processing"), Fx("setProcessingText", t),
                        Fx("connect", "")>>)

\* Lines 404-406
ConnectResolves(i, thrownByConnected, connectedThrewAgain, cb) ==
  /\ Resumes(i, "awaitConnect")
  /\ IF Stale(i)
     THEN /\ Unread(TRUE, thrownByConnected, NoThrown) /\ Unread(TRUE, cb, "returns")
          /\ Unread(TRUE, connectedThrewAgain, FALSE)
          /\ StaleReturn(i)
     ELSE IF thrownByConnected = NoThrown
     THEN /\ Unread(TRUE, cb, "returns") /\ Unread(TRUE, connectedThrewAgain, FALSE)
          /\ Finally(i, "completed", state, <<Fx("onConnected", "")>>, NoResponse,
                     NoThrown, "")
     ELSE ConnectFail(i, state, <<Fx("onConnected", "")>>, thrownByConnected,
                      connectedThrewAgain, cb, "onConnected")

ConnectRejects(i, e, connectedThrew, cb) ==
  /\ Resumes(i, "awaitConnect")
  /\ ConnectFail(i, state, <<>>, e, connectedThrew, cb, "connect")

----------------------------------------------------------------------------
(* The caller: resetAction (useActionLock) and resetState (usePaywallStatus) *)

ResetAction ==
  /\ returned = NoReturn
  /\ actionNonceRef < MaxNonce
  /\ actionNonceRef' = resetAction(actionNonceRef).nonce
  /\ actionLockRef' = resetAction(actionNonceRef).lock
  /\ isActionBusy' = resetAction(actionNonceRef).busy
  /\ returned' = NoReturn
  /\ UNCHANGED <<state, inv>>
  /\ UNCHANGED outsideActions

ResetState(status) ==
  /\ returned = NoReturn
  /\ state' = resetState(state, status)
  /\ returned' = NoReturn
  /\ UNCHANGED <<actionLockRef, actionNonceRef, isActionBusy, inv>>
  /\ UNCHANGED outsideActions

\* The promise of the invocation that returned settles; its caller dropped
\* it (void signPayment()), so nothing but the record of the return changes.
PromiseSettles ==
  /\ returned # NoReturn
  /\ returned' = NoReturn
  /\ UNCHANGED <<actionLockRef, actionNonceRef, isActionBusy, state, inv>>
  /\ UNCHANGED outsideActions

----------------------------------------------------------------------------

Next ==
  \/ \E in \in SignInputs, chainMatches \in BOOLEAN, cb \in CallbackBehaviours :
        SignPaymentCall(in, chainMatches, cb)
  \/ \E i \in Invocations, prep \in PrepareOutcomes, cb \in CallbackBehaviours :
        EnsureChainReturns(i, prep, cb, DefaultReading)
  \/ \E i \in Invocations, prep \in PrepareOutcomes, cb \in CallbackBehaviours :
        SwitchChainResolves(i, prep, cb, DefaultReading)
  \/ \E i \in Invocations, e \in ThrownValues, cb \in CallbackBehaviours :
        SwitchChainRejects(i, e, cb)
  \/ \E i \in Invocations, sig \in Signatures : SignatureResolves(i, sig)
  \/ \E i \in Invocations, e \in ThrownValues, cb \in CallbackBehaviours :
        SignatureRejects(i, e, cb)
  \/ \E i \in Invocations, ok \in BOOLEAN : FetchResolves(i, ok)
  \/ \E i \in Invocations, e \in ThrownValues, cb \in CallbackBehaviours :
        FetchRejects(i, e, cb)
  \/ \E i \in Invocations, body \in ResponseBodies, cb \in CallbackBehaviours :
        ErrorJsonSettles(i, body, cb)
  \/ \E i \in Invocations, body \in ResponseBodies, t \in CallbackOutcomes,
        cb \in CallbackBehaviours : JsonSettles(i, body, t, cb)
  \/ \E i \in Invocations, body \in UnparsableBodies, t \in CallbackOutcomes,
        cb \in CallbackBehaviours : TextSettles(i, body, t, cb)
  \/ \E in \in ConnectInputs, t \in CallbackOutcomes, cb \in CallbackBehaviours :
        ConnectCall(in, t, cb)
  \/ \E i \in Invocations, t \in CallbackOutcomes, again \in BOOLEAN,
        cb \in CallbackBehaviours : ConnectResolves(i, t, again, cb)
  \/ \E i \in Invocations, e \in ThrownValues, threw \in BOOLEAN,
        cb \in CallbackBehaviours : ConnectRejects(i, e, threw, cb)
  \/ ResetAction
  \/ \E status \in {"connect", "connected"} : ResetState(status)
  \/ PromiseSettles

Spec == Init /\ [][Next]_vars

----------------------------------------------------------------------------
(* The two actions when every wallet request and every HTTP call settles:  *)
(* an await of an invocation in flight is eventually resumed, by a         *)
(* resolution or by a rejection.  The caller calls the actions and         *)
(* resetAction; it leaves the PaywallState, which the lock never reads, to *)
(* the actions.                                                            *)

SettledInputs == {ValidInput, [ValidInput EXCEPT !.payTo = ""]}
SettledThrown == {ThrownBoom, ThrownNullish}
SettledBodies == {JsonObjectBody(JsUndefined), TextBody, EmptyBody}
SettledOutcomes == {NoThrown, ThrownBoom}
SettledPreparations == {"ok", "invalidTypedData"}
SettledConnectInputs ==
  {[ValidInput EXCEPT !.accountStatus = "disconnected"], ValidInput,
   [ValidInput EXCEPT !.hasResolvedChain = FALSE]}

\* The call invocation i awaits settles, one way or the other
Settles(i) ==
  \/ \E prep \in SettledPreparations, cb \in CallbackBehaviours :
        EnsureChainReturns(i, prep, cb, DefaultReading)
  \/ \E prep \in SettledPreparations, cb \in CallbackBehaviours :
        SwitchChainResolves(i, prep, cb, DefaultReading)
  \/ \E e \in SettledThrown, cb \in CallbackBehaviours : SwitchChainRejects(i, e, cb)
  \/ \E sig \in Signatures : SignatureResolves(i, sig)
  \/ \E e \in SettledThrown, cb \in CallbackBehaviours : SignatureRejects(i, e, cb)
  \/ \E ok \in BOOLEAN : FetchResolves(i, ok)
  \/ \E e \in SettledThrown, cb \in CallbackBehaviours : FetchRejects(i, e, cb)
  \/ \E body \in SettledBodies, cb \in CallbackBehaviours : ErrorJsonSettles(i, body, cb)
  \/ \E body \in SettledBodies, t \in SettledOutcomes, cb \in CallbackBehaviours :
        JsonSettles(i, body, t, cb)
  \/ \E body \in SettledBodies \cap UnparsableBodies, t \in SettledOutcomes,
        cb \in CallbackBehaviours :
        TextSettles(i, body, t, cb)
  \/ \E t \in SettledOutcomes, again \in BOOLEAN, cb \in CallbackBehaviours :
        ConnectResolves(i, t, again, cb)
  \/ \E e \in SettledThrown \cup {ThrownAlreadyConnected}, threw \in BOOLEAN,
        cb \in CallbackBehaviours : ConnectRejects(i, e, threw, cb)

SettledNext ==
  \/ \E in \in SettledInputs, chainMatches \in BOOLEAN, cb \in CallbackBehaviours :
        SignPaymentCall(in, chainMatches, cb)
  \/ \E in \in SettledConnectInputs, t \in SettledOutcomes, cb \in CallbackBehaviours :
        ConnectCall(in, t, cb)
  \/ \E i \in Invocations : Settles(i)
  \/ ResetAction
  \/ PromiseSettles

\* Strong fairness: a call by the caller in between disables the resumption
\* for the time of one step, any number of times
SettledSpec ==
  /\ Init
  /\ [][SettledNext]_vars
  /\ \A i \in Invocations : SF_vars(Settles(i))
  /\ WF_vars(PromiseSettles)

----------------------------------------------------------------------------
(* signPayment on requirements, request options and clock readings that    *)
(* differ, with its callbacks returning and the request failing            *)

\* POST with a body, credentials and headers of the caller, one of them an
\* Accept of its own
PostInit ==
  RequestInit("method" :> JsString("POST")
              @@ "body" :> JsString("{\"q\":1}")
              @@ "credentials" :> JsString("include")
              @@ "headers" :> ("Accept" :> HeaderText("text/html")
                               @@ "Authorization" :> HeaderText("Bearer t")))

\* No method given (the key is there, undefined), an old payment header
HeadersInit ==
  RequestInit("method" :> JsUndefined
              @@ "headers" :> ("X-Payment-Signature" :> HeaderText("stale")
                               @@ "x-trace" :> HeaderText("7")))

DecimalInput ==
  [ValidInput EXCEPT !.amountAtomic = JsStr(<<"1", ".", "5">>),
                     !.network = "eip155:8453", !.chainId = 8453, !.chainName = "Base",
                     !.maxTimeoutSeconds = SecondsUnset, !.requestInit = PostInit]
PaddedInput ==
  [ValidInput EXCEPT !.amountAtomic = JsStr(<<"0", "0", "7">>),
                     !.scheme = "upto",
                     !.maxTimeoutSeconds = Seconds(0), !.requestInit = HeadersInit]
PaymentInputs == {ValidInput, DecimalInput, PaddedInput}

Readings == {DefaultReading, Reading(86400000, "0xe0")}

PaymentNext ==
  \/ \E in \in PaymentInputs, chainMatches \in BOOLEAN :
        SignPaymentCall(in, chainMatches, "returns")
  \/ \E i \in Invocations, reading \in Readings :
        EnsureChainReturns(i, "ok", "returns", reading)
  \/ \E i \in Invocations, reading \in Readings :
        SwitchChainResolves(i, "ok", "returns", reading)
  \/ \E i \in Invocations, sig \in Signatures : SignatureResolves(i, sig)
  \/ \E i \in Invocations : FetchRejects(i, ThrownBoom, "returns")
  \/ ResetAction
  \/ PromiseSettles

PaymentSpec == Init /\ [][PaymentNext]_vars

----------------------------------------------------------------------------
(* Vocabulary of the properties *)

Count(lg, op) == Cardinality({k \in DOMAIN lg : lg[k].op = op})
Has(lg, op) == Count(lg, op) > 0

\* The effects a superseded action must no longer have
ObservableOps ==
  {"setStatus", "setProcessingText", "showError", "fetch", "onSuccess", "onError",
   "onConnected"}
Observable(fxs) == {k \in DOMAIN fxs : fxs[k].op \in ObservableOps}

HasReturned == returned.kind # "none"
TookLock(r) == r.actionId # 0

\* The invocations between a beginAction that gave them a token and their
\* own endAction
Holders == {i \in DOMAIN inv : inv[i].actionId # 0 /\ ~Has(inv[i].log, "endAction")}

----------------------------------------------------------------------------
(* C1 *)

\* C1: at every instant at most one invocation is between the beginAction
\* that gave it a token and its own endAction, whatever resetAction calls
\* are interleaved.
C1_AtMostOneHolder == Cardinality(Holders) <= 1

----------------------------------------------------------------------------
(* C2 *)

\* What the invocation with token id does in the step, if it takes it
StepFxOf(id) ==
  IF returned'.kind # "none" /\ returned'.actionId = id
  THEN returned'.fx
  ELSE LET before == {k \in DOMAIN inv : inv[k].actionId = id}
           after == {k \in DOMAIN inv' : inv'[k].actionId = id}
           b == CHOOSE k \in before : TRUE
           a == CHOOSE k \in after : TRUE
       IN IF after = {} THEN <<>>
          ELSE SubSeq(inv'[a].log, Len(inv[b].log) + 1, Len(inv'[a].log))

\* C2: an invocation whose token is stale performs no further state
\* transition, HTTP call or callback, whether the call it awaited resolves
\* or rejects.
C2_StaleActionHasNoEffect ==
  [][\A i \in DOMAIN inv : Stale(i) => Observable(StepFxOf(inv[i].actionId)) = {}]_vars

----------------------------------------------------------------------------
(* C3 *)

PassesSignGuards(in) ==
  /\ ~Falsy(in.accountAddress) /\ in.hasRequirement /\ in.hasResolvedChain
  /\ in.payTo # "" /\ in.asset # "" /\ ~AmountMissing(in.amountAtomic)
  /\ in.extraName.t = "string" /\ in.extraName.v # ""
  /\ in.extraVersion.t = "string" /\ in.extraVersion.v # ""

PassesConnectGuards(in) == in.hasResolvedChain /\ in.accountStatus # "connected"

PassesGuards(r) ==
  \/ r.kind = "signPayment" /\ PassesSignGuards(r.input)
  \/ r.kind = "connectWithConnector" /\ PassesConnectGuards(r.input)

\* C3: while the lock is held no invocation is admitted, and a call that
\* passes its entry guards then returns at once having changed nothing: not
\* the PaywallState, not the lock, not the token, not the invocations in
\* flight, and having performed no effect.
C3_BusyCallIsNoOp ==
  [][actionLockRef =>
       /\ Len(inv') <= Len(inv)
       /\ (returned = NoReturn /\ returned'.kind # "none" /\ ~TookLock(returned')
           /\ PassesGuards(returned'))
            => /\ UNCHANGED <<actionLockRef, actionNonceRef, isActionBusy, state, inv>>
               /\ returned'.exit = "busy"
               /\ returned'.log = <<>>]_vars

C3_Witness ==
  /\ returned.exit = "busy"
  /\ actionLockRef
  /\ \E i \in DOMAIN inv : ~Stale(i) /\ inv[i].pc = "awaitSignature"

----------------------------------------------------------------------------
(* C4 *)

\* C4: an invocation that was given a token calls endAction exactly once,
\* as its last step, on every exit path; it has not called it while it is
\* still in flight.
C4_EndActionOnceAndLast ==
  /\ \A i \in DOMAIN inv : ~Has(inv[i].log, "endAction")
  /\ (HasReturned /\ TookLock(returned)) =>
       /\ Count(returned.log, "endAction") = 1
       /\ returned.log[Len(returned.log)].op = "endAction"

C4_Witness ==
  /\ returned.exit = "stale"
  /\ returned.kind = "signPayment"
  /\ Has(returned.log, "fetch")

----------------------------------------------------------------------------
(* C5 *)

\* C5: a signPayment invocation in which something failed after the lock
\* was taken ends with status = error and a non-empty errorMessage, and no
\* exception leaves it.
C5_EveryFailureBecomesErrorState ==
  (HasReturned /\ returned.kind = "signPayment" /\ returned.failedAt # "") =>
    /\ returned.exit = "caught"
    /\ state.status = "error"
    /\ state.errorMessage # ""

----------------------------------------------------------------------------
(* C6 *)

\* C6: when the signature request rejects with an error of code 4001 the
\* invocation ends with status = error, the fixed message 'Transaction
\* rejected by user', the lock released and no HTTP request issued.
C6_Code4001IsFixedRejection ==
  (HasReturned /\ returned.kind = "signPayment" /\ returned.failedAt = "signTypedData"
   /\ returned.thrown.code = 4001) =>
    /\ state.status = "error"
    /\ state.errorMessage = "Transaction rejected by user"
    /\ ~actionLockRef /\ ~isActionBusy
    /\ Has(returned.fx, "endAction")
    /\ ~Has(returned.log, "fetch")

C6_Witness ==
  /\ returned.kind = "signPayment"
  /\ returned.failedAt = "signTypedData"
  /\ returned.thrown = ThrownCode4001Text
  /\ state.errorMessage = MsgRejectedByUser

----------------------------------------------------------------------------
(* C7 *)

\* C7: a signPayment invocation whose token stayed current and that
\* received a 2xx response ends with status = success, having invoked
\* onSuccess exactly once with the parsed body and never onError.
C7_OkResponseEndsInSuccess ==
  (HasReturned /\ returned.kind = "signPayment" /\ returned.response.ok
   /\ ~returned.wasStale) =>
    /\ state.status = "success"
    /\ Count(returned.log, "onSuccess") = 1
    /\ \A k \in DOMAIN returned.log :
         returned.log[k].op = "onSuccess" =>
           returned.log[k].arg = (IF returned.response.body.kind \in {"object", "null"}
                                  THEN ParsedResult(returned.response.body)
                                  ELSE "text:raw")
    /\ ~Has(returned.log, "onError")

----------------------------------------------------------------------------
(* C8 *)

\* The message C8 expects for a non-2xx body
ExpectedVerificationMessage(body) ==
  IF body.kind = "object" /\ body.message.t = "string" /\ body.message.v # ""
  THEN body.message.v
  ELSE "Payment verification failed"

\* C8: for a non-2xx response the invocation ends with status = error and
\* errorMessage equal to the body's message when it has a non-empty one,
\* 'Payment verification failed' otherwise; it never sets success nor
\* invokes onSuccess.
C8_NonOkResponseShowsServerMessage ==
  (HasReturned /\ returned.kind = "signPayment" /\ returned.response.body.kind # "none"
   /\ ~returned.response.ok) =>
    /\ state.status = "error"
    /\ state.errorMessage = ExpectedVerificationMessage(returned.response.body)
    /\ ~Has(returned.log, "onSuccess")
    /\ \A k \in DOMAIN returned.log :
         ~(returned.log[k].op = "setStatus" /\ returned.log[k].arg = "success")

----------------------------------------------------------------------------
(* C9 *)

\* The four cases of C9, in the order signPayment tests them
NoAccount(in) == Falsy(in.accountAddress)
NoRequirementOrChain(in) == ~in.hasRequirement \/ ~in.hasResolvedChain
MissingField(in) == in.payTo = "" \/ in.asset = "" \/ AmountMissing(in.amountAtomic)
NoDomain(in) ==
  \/ ~(in.extraName.t = "string" /\ in.extraName.v # "")
  \/ ~(in.extraVersion.t = "string" /\ in.extraVersion.v # "")

Defective(in) == NoAccount(in) \/ NoRequirementOrChain(in) \/ MissingField(in) \/ NoDomain(in)

ExpectedGuardMessage(in) ==
  IF NoAccount(in) THEN "Wallet not connected."
  ELSE IF NoRequirementOrChain(in)
  THEN "Missing payment requirement or chain configuration."
  ELSE IF MissingField(in) THEN "Payment requirement missing required fields."
  ELSE "Payment requirement missing EIP-712 domain details."

GuardMessages == {ExpectedGuardMessage(in) : in \in {x \in SignInputs : Defective(x)}}

\* C9: signPayment called with a defective input takes no token and makes
\* no network-switch, signature or HTTP call; it only calls showError, with
\* the message of its case, and the four cases have four different messages.
C9_EntryGuardsRejectBeforeLock ==
  /\ \A i \in DOMAIN inv : inv[i].kind = "signPayment" => ~Defective(inv[i].input)
  /\ (HasReturned /\ returned.kind = "signPayment" /\ Defective(returned.input)) =>
       /\ ~TookLock(returned)
       /\ state.status = "error"
       /\ state.errorMessage = ExpectedGuardMessage(returned.input)
       /\ returned.log[1] = Fx("showError", ExpectedGuardMessage(returned.input))
       /\ \A k \in DOMAIN returned.log : returned.log[k].op \in {"showError", "onError"}
  /\ Cardinality(GuardMessages) = 4

C9_Witness ==
  /\ returned.kind = "signPayment"
  /\ returned.exit = "guard"
  /\ NoDomain(returned.input) /\ ~MissingField(returned.input)
  /\ actionLockRef
  /\ state.errorMessage = MsgMissingDomain

----------------------------------------------------------------------------
(* C10 *)

\* The place of an effect in the order of section 4.6, 0 for the others
Rank(fx) ==
  CASE fx.op = "switchChain" -> 1
    [] fx.op = "validateTypedData" -> 2
    [] fx.op = "signTypedData" -> 3
    [] fx.op = "fetch" -> 4
    [] fx.op = "response.json" -> 5
    [] fx.op = "response.text" -> 6
    [] fx.op = "setStatus" /\ fx.arg = "success" -> 7
    [] fx.op = "onSuccess" -> 8
    [] OTHER -> 0

Before(lg, k, op) == \E j \in 1..(k - 1) : lg[j].op = op

InOrder(lg) ==
  /\ \A a, b \in DOMAIN lg :
       (a < b /\ Rank(lg[a]) > 0 /\ Rank(lg[b]) > 0) => Rank(lg[a]) < Rank(lg[b])
  /\ \A k \in DOMAIN lg :
       /\ lg[k].op = "signTypedData" => Before(lg, k, "validateTypedData")
       /\ lg[k].op = "fetch" => Before(lg, k, "signTypedData") /\ lg[k].arg \in Signatures
       /\ lg[k].op = "response.json" => Before(lg, k, "fetch")
       /\ lg[k].op = "response.text" => Before(lg, k, "response.json")
       /\ Rank(lg[k]) = 7 => Before(lg, k, "response.json")
       /\ lg[k].op = "onSuccess" => Rank(lg[k - 1]) = 7

\* C10: within one signPayment invocation the network-switch request, the
\* typed-data validation, the signature request, the HTTP replay, the
\* reading of the response and the success transition happen in this order,
\* each at most once, and the HTTP request carries a signature the wallet
\* returned earlier in the same invocation.
C10_StepsInOrder ==
  /\ \A i \in DOMAIN inv : inv[i].kind = "signPayment" => InOrder(inv[i].log)
  /\ (HasReturned /\ returned.kind = "signPayment") => InOrder(returned.log)

C10_Witness ==
  /\ returned.kind = "signPayment"
  /\ returned.exit = "completed"
  /\ Has(returned.log, "switchChain")
  /\ Has(returned.log, "response.text")

----------------------------------------------------------------------------
(* useActionLock driven directly: beginAction, endAction and resetAction   *)
(* called in any order, as the hook's interface allows                      *)

\* One call on the lock and the token it returned (0: null, or no value)
LockCall(op, token) == [op |-> op, token |-> token]

LockBegin ==
  /\ Len(lockCalls) < MaxLockCalls
  /\ LET b == beginAction(actionLockRef, actionNonceRef, isActionBusy)
     IN /\ actionLockRef' = b.lock
        /\ actionNonceRef' = b.nonce
        /\ isActionBusy' = b.busy
        /\ lockCalls' = Append(lockCalls, LockCall("beginAction", b.token))
  /\ UNCHANGED outsideLock

LockEnd ==
  /\ Len(lockCalls) < MaxLockCalls
  /\ actionLockRef' = endAction.lock
  /\ isActionBusy' = endAction.busy
  /\ lockCalls' = Append(lockCalls, LockCall("endAction", 0))
  /\ UNCHANGED actionNonceRef
  /\ UNCHANGED outsideLock

LockReset ==
  /\ Len(lockCalls) < MaxLockCalls
  /\ actionLockRef' = resetAction(actionNonceRef).lock
  /\ actionNonceRef' = resetAction(actionNonceRef).nonce
  /\ isActionBusy' = resetAction(actionNonceRef).busy
  /\ lockCalls' = Append(lockCalls, LockCall("resetAction", 0))
  /\ UNCHANGED outsideLock

LockNext == LockBegin \/ LockEnd \/ LockReset

LockSpec == Init /\ [][LockNext]_vars

\* The calls of beginAction that returned a token
Issued == {k \in DOMAIN lockCalls : lockCalls[k].op = "beginAction" /\ lockCalls[k].token # 0}

LockOps == [k \in DOMAIN lockCalls |-> lockCalls[k].op]
LockTokens == [k \in DOMAIN lockCalls |-> lockCalls[k].token]

----------------------------------------------------------------------------
(* C25 *)

\* Every signature request of the log follows a validation of the typed data
SignedAfterValidation(lg) ==
  \A k \in DOMAIN lg :
    lg[k].op = "signTypedData" => \E j \in 1..(k - 1) : lg[j].op = "validateTypedData"

\* C25: an invocation validates the typed data before it requests a
\* signature; when the validation fails it requests no signature, makes no
\* HTTP call, and ends with status error and the lock released.
C25_ValidatedBeforeSigning ==
  /\ \A i \in DOMAIN inv : SignedAfterValidation(inv[i].log)
  /\ HasReturned => SignedAfterValidation(returned.log)
  /\ (HasReturned /\ returned.failedAt = "validateTypedData")
       => /\ ~Has(returned.log, "signTypedData")
          /\ ~Has(returned.log, "fetch")
          /\ state.status = "error"
          /\ Has(returned.fx, "endAction")
          /\ ~actionLockRef

\* An invocation has ended on a validation failure
C25_Witness ==
  /\ HasReturned
  /\ returned.failedAt = "validateTypedData"
  /\ Has(returned.log, "validateTypedData")
  /\ state.status = "error"

----------------------------------------------------------------------------
(* C29 *)

\* Every signature request and HTTP call of the log follows the switch
\* request
SwitchedFirst(lg) ==
  \A k \in DOMAIN lg :
    lg[k].op \in {"signTypedData", "fetch"}
      => \E j \in 1..(k - 1) : lg[j].op = "switchChain"

\* The invocation failed on the network switch, without signing or calling
SwitchFailureStops ==
  (HasReturned /\ returned.failedAt = "switchChain")
    => /\ ~Has(returned.log, "signTypedData")
       /\ ~Has(returned.log, "fetch")
       /\ state.status = "error"

\* C29: an invocation whose wallet is on another chain requests the switch
\* before any signature or HTTP call; when the switch fails it requests no
\* signature, makes no HTTP call, and ends with status error and, as its
\* message, the guidance that names the target chain.
C29_SwitchFailureNamesChain ==
  /\ \A i \in DOMAIN inv : Has(inv[i].log, "switchChain") => SwitchedFirst(inv[i].log)
  /\ \A i \in DOMAIN inv : inv[i].pc = "awaitSwitchChain" => Has(inv[i].log, "switchChain")
  /\ SwitchFailureStops
  /\ (HasReturned /\ returned.failedAt = "switchChain")
       => state.errorMessage = SwitchGuidance(returned.input.chainName)

----------------------------------------------------------------------------
(* C11 *)

\* Call k found the lock held: a beginAction before it returned a token and
\* neither endAction nor resetAction was called in between.
HeldBefore(k) ==
  \E j \in Issued :
    /\ j < k
    /\ \A m \in (j + 1)..(k - 1) : lockCalls[m].op = "beginAction"

\* C11: beginAction returns null exactly when the lock is held, that is
\* when a token was issued and neither endAction nor resetAction was called
\* since; so the first beginAction after an endAction or a resetAction
\* returns a token.
C11_BeginRefusedExactlyWhileHeld ==
  \A k \in DOMAIN lockCalls :
    lockCalls[k].op = "beginAction" => (lockCalls[k].token = 0 <=> HeldBefore(k))

C11_Witness ==
  /\ LockOps = <<"beginAction", "beginAction", "endAction", "beginAction", "resetAction",
                 "beginAction">>
  /\ LockTokens = <<1, 0, 0, 2, 0, 4>>

----------------------------------------------------------------------------
(* C12 *)

\* A later beginAction returned a token, or resetAction ran, after call k
Superseded(k) ==
  \E m \in (k + 1)..Len(lockCalls) :
    \/ m \in Issued
    \/ lockCalls[m].op = "resetAction"

\* C12: an issued token is stale exactly when a later beginAction has
\* returned a token or resetAction has run since it was issued; endAction
\* alone leaves the most recently issued token current.
C12_StaleExactlyWhenSuperseded ==
  \A k \in Issued : isActionStale(actionNonceRef, lockCalls[k].token) <=> Superseded(k)

C12_Witness ==
  /\ LockOps = <<"beginAction", "resetAction", "beginAction", "endAction">>
  /\ isActionStale(actionNonceRef, lockCalls[1].token)
  /\ ~isActionStale(actionNonceRef, lockCalls[3].token)

----------------------------------------------------------------------------
(* C13 *)

\* C13: the counter never decreases, every token beginAction returns is
\* greater than all the tokens it returned before, and at every instant
\* exactly one token value is not stale.
C13_TokensIncrease ==
  /\ [][actionNonceRef' >= actionNonceRef]_vars
  /\ [](/\ \A j, k \in Issued : j < k => lockCalls[j].token < lockCalls[k].token
        /\ Cardinality({t \in 0..(MaxLockCalls + 1) :
                          ~isActionStale(actionNonceRef, t)}) = 1)

C13_Witness ==
  /\ LockOps = <<"beginAction", "endAction", "resetAction", "beginAction", "endAction",
                 "beginAction">>
  /\ LockTokens = <<1, 0, 0, 3, 0, 4>>

----------------------------------------------------------------------------
(* paywall-helpers: ChainResolver *)

ChainConfig(chainId, name, usdcAddress) ==
  [defined |-> TRUE, chainId |-> chainId, name |-> name, usdcAddress |-> usdcAddress]
NoChainConfig == [defined |-> FALSE, chainId |-> 0, name |-> "", usdcAddress |-> ""]

BaseSepolia == ChainConfig(84532, "Base Sepolia", "0x036CbD53842c5426634e7929541eC2318f3dCF7e")
BaseMainnet == ChainConfig(8453, "Base", "0x833589fCD6eDb6E08f4c7C32D4f71b54bdA02913")
\* a configuration whose usdcAddress is no address
Misconfigured == ChainConfig(11155111, "Sepolia", "usdc.eth")

Net_84532 == <<"e", "i", "p", "1", "5", "5", ":", "8", "4", "5", "3", "2">>
Net_8453 == <<"e", "i", "p", "1", "5", "5", ":", "8", "4", "5", "3">>
Net_8453_Upper == <<"E", "I", "P", "1", "5", "5", ":", "8", "4", "5", "3">>
Net_11155111 == <<"e", "i", "p", "1", "5", "5", ":", "1", "1", "1", "5", "5", "1", "1", "1">>
Net_0 == <<"e", "i", "p", "1", "5", "5", ":", "0">>
Net_5 == <<"e", "i", "p", "1", "5", "5", ":", "5">>
Net_Legacy == <<"b", "a", "s", "e">>

\* A requirement, by the one field resolution reads
Requirement(network) == [defined |-> TRUE, network |-> network]
NoRequirement == [defined |-> FALSE, network |-> <<>>]

\* chainConfigs: a Record<string, ChainConfig>, or undefined
ChainConfigMap(map) == [defined |-> TRUE, map |-> map]
NoChainConfigMap == [defined |-> FALSE, map |-> <<>>]

\* The built-in map of ./constants
DEFAULT_CHAIN_CONFIGS == (Net_84532 :> BaseSepolia)

\* map[key], undefined when the key is absent
Lookup(map, key) == IF key \in DOMAIN map THEN map[key] ELSE NoChainConfig

\* chainConfigs?.[network] || DEFAULT_CHAIN_CONFIGS[network]
LookupOverride(network, chainConfigs) ==
  LET own == IF chainConfigs.defined THEN Lookup(chainConfigs.map, network)
             ELSE NoChainConfig
  IN IF own.defined THEN own ELSE Lookup(DEFAULT_CHAIN_CONFIGS, network)

resolveChain(requirement, chainConfig, chainConfigs) ==
  LET hasNetwork == requirement.defined /\ requirement.network # <<>>
      requirementChainId == parseNetworkChainId(requirement.network)
      truthy == ~requirementChainId.isNull /\ requirementChainId.n # 0
  IN IF chainConfig.defined
     THEN IF hasNetwork /\ truthy /\ requirementChainId.n # chainConfig.chainId
          THEN LookupOverride(requirement.network, chainConfigs)
          ELSE chainConfig
     ELSE IF hasNetwork
     THEN LookupOverride(requirement.network, chainConfigs)
     ELSE NoChainConfig

----------------------------------------------------------------------------
(* paywall-helpers: buildBalanceConfigs, buildBalanceError *)

\* viem's getAddress accepts the string (it throws on anything else)
AddressIsValid(a) == a \in {BaseSepolia.usdcAddress, BaseMainnet.usdcAddress}

\* A BalanceConfigEntry; "" stands for an absent usdcAddress or error
BalanceConfigEntry(accept, config, usdcAddress, error) ==
  [accept |-> accept, config |-> config, usdcAddress |-> usdcAddress, error |-> error]

MsgMissingChainConfiguration == "Missing chain configuration"
MsgInvalidUsdcAddress == "Invalid USDC address"
MsgBalanceUnavailable == "Balance unavailable"
MsgFailedToFetchBalance == "Failed to fetch balance"

buildBalanceConfigs(accepts, chainConfig, chainConfigs) ==
  [i \in DOMAIN accepts |->
     LET config == resolveChain(accepts[i], chainConfig, chainConfigs)
     IN IF ~config.defined
        THEN BalanceConfigEntry(accepts[i], NoChainConfig, "", MsgMissingChainConfiguration)
        ELSE IF AddressIsValid(config.usdcAddress)
        THEN BalanceConfigEntry(accepts[i], config, config.usdcAddress, "")
        ELSE BalanceConfigEntry(accepts[i], config, "", MsgInvalidUsdcAddress)]

\* A balance: null, or the decimal number units + rest / 10^decimals
NullBalance == [isNull |-> TRUE, units |-> 0, rest |-> 0, decimals |-> 0]

\* Number(formatUnits(value, decimals))
FormatUnits(value, decimals) ==
  [isNull |-> FALSE, units |-> value \div (10 ^ decimals), rest |-> value % (10 ^ decimals),
   decimals |-> decimals]

BalanceInfo(network, chainName, balance, error) ==
  [network |-> network, chainName |-> chainName, balance |-> balance, error |-> error]

buildBalanceError(entry, message) ==
  BalanceInfo(entry.accept.network,
              IF entry.config.defined THEN entry.config.name ELSE "Unknown chain",
              NullBalance, message)

\* entry.error ?? 'Missing chain configuration'
ErrorOf(entry) == IF entry.error # "" THEN entry.error ELSE MsgMissingChainConfiguration

----------------------------------------------------------------------------
(* useBalanceData *)

\* The builder of the calls skipping only the entries without a config
ContractsSkipMissingOnly(entry) == ~entry.config.defined

\* Line 112: the entries balanceContracts makes no call for
ContractsSkip(entry) == ~entry.config.defined \/ entry.error # "" \/ entry.usdcAddress = ""

\* Line 157: the entries the balances loop takes no read result for
ResultsSkip(entry) == ~entry.config.defined \/ entry.error # "" \/ entry.usdcAddress = ""

ContractCall(address, functionName, account, chainId) ==
  [address |-> address, functionName |-> functionName, account |-> account,
   chainId |-> chainId]

RECURSIVE ContractsFrom(_, _, _)
ContractsFrom(address, configs, k) ==
  IF k > Len(configs) THEN <<>>
  ELSE (IF ContractsSkip(configs[k]) THEN <<>>
        ELSE <<ContractCall(configs[k].usdcAddress, "balanceOf", address,
                            configs[k].config.chainId),
               ContractCall(configs[k].usdcAddress, "decimals", "",
                            configs[k].config.chainId)>>)
       \o ContractsFrom(address, configs, k + 1)

\* Lines 107-129
balanceContracts(address, configs) ==
  IF address = "" THEN <<>> ELSE ContractsFrom(address, configs, 1)

\* An enabled flag that forgets showBalances
balanceQueryEnabledWithoutFlag(showBalances, address, contracts) ==
  address # "" /\ Len(contracts) > 0

\* Lines 131-132
balanceQueryEnabled(showBalances, address, contracts) ==
  showBalances /\ address # "" /\ Len(contracts) > 0

\* One element of balanceQuery.data (allowFailure: true)
ReadSuccess(t, v) ==
  [status |-> "success", result |-> [t |-> t, v |-> v], errorIsError |-> FALSE,
   errorMessage |-> ""]
ReadFailure(isError, message) ==
  [status |-> "failure", result |-> [t |-> "undefined", v |-> 0], errorIsError |-> isError,
   errorMessage |-> message]
\* balanceQuery.data[k] beyond the end of the array
NoReadResult == [status |-> "undefined", result |-> [t |-> "undefined", v |-> 0],
                 errorIsError |-> FALSE, errorMessage |-> ""]

DataAt(data, k) == IF k \in DOMAIN data THEN data[k] ELSE NoReadResult

IsNumeric(result) == result.t \in {"bigint", "number"}

\* Lines 162-205: the BalanceInfo of an entry that has read results
BalanceOfEntry(entry, balanceResult, decimalsResult) ==
  IF balanceResult.status = "undefined" \/ decimalsResult.status = "undefined"
  THEN buildBalanceError(entry, MsgBalanceUnavailable)
  ELSE IF balanceResult.status = "failure" \/ decimalsResult.status = "failure"
  THEN LET err == IF balanceResult.status = "failure" THEN balanceResult ELSE decimalsResult
       IN buildBalanceError(entry, IF err.errorIsError THEN err.errorMessage
                                   ELSE MsgFailedToFetchBalance)
  ELSE IF ~IsNumeric(decimalsResult.result) \/ ~IsNumeric(balanceResult.result)
  THEN buildBalanceError(entry, MsgBalanceUnavailable)
  ELSE BalanceInfo(entry.accept.network, entry.config.name,
                   FormatUnits(balanceResult.result.v, decimalsResult.result.v), "")

\* Lines 153-206: the loop, with its dataIndex
RECURSIVE BalancesFrom(_, _, _, _)
BalancesFrom(configs, data, k, dataIndex) ==
  IF k > Len(configs) THEN <<>>
  ELSE IF ResultsSkip(configs[k])
  THEN <<buildBalanceError(configs[k], ErrorOf(configs[k]))>>
       \o BalancesFrom(configs, data, k + 1, dataIndex)
  ELSE <<BalanceOfEntry(configs[k], DataAt(data, dataIndex), DataAt(data, dataIndex + 1))>>
       \o BalancesFrom(configs, data, k + 1, dataIndex + 2)

\* Lines 147-151: the entries returned while the query has no data
RECURSIVE ErrorsOnlyFrom(_, _)
ErrorsOnlyFrom(configs, k) ==
  IF k > Len(configs) THEN <<>>
  ELSE (IF ~configs[k].config.defined \/ configs[k].error # ""
        THEN <<buildBalanceError(configs[k], ErrorOf(configs[k]))>> ELSE <<>>)
       \o ErrorsOnlyFrom(configs, k + 1)

\* Lines 144-209
balances(showBalances, address, configs, hasData, data) ==
  IF ~showBalances \/ address = "" \/ Len(configs) = 0 THEN <<>>
  ELSE IF ~hasData THEN ErrorsOnlyFrom(configs, 1)
  ELSE BalancesFrom(configs, data, 1, 1)

\* What the hook computes in the current render
BalanceConfigs ==
  buildBalanceConfigs(balanceParams.accepts, balanceParams.chainConfig,
                      balanceParams.chainConfigs)
BalanceContracts == balanceContracts(balanceParams.address, BalanceConfigs)
Balances ==
  balances(balanceParams.showBalances, balanceParams.address, BalanceConfigs,
           balanceQuery.hasData, balanceQuery.data)

\* The chains: what balanceOf and decimals answer on each
ReadChains == {BaseSepolia.chainId, BaseMainnet.chainId, Misconfigured.chainId}
ReadOutcomes == {"ok", "balanceFails", "decimalsFails", "noResult"}

\* The balance an account has on a chain, in atomic units: a different
\* one on each chain
BalanceOnChain(chainId) == (chainId % 1000) * 1000000 + 500000

\* The result of one call, by what its chain answers
ReadResult(call, outcome) ==
  IF call.functionName = "balanceOf"
  THEN CASE outcome = "balanceFails" -> ReadFailure(TRUE, "execution reverted")
         [] outcome = "noResult" -> ReadSuccess("undefined", 0)
         [] OTHER -> ReadSuccess("bigint", BalanceOnChain(call.chainId))
  ELSE CASE outcome = "decimalsFails" -> ReadFailure(FALSE, "")
         [] OTHER -> ReadSuccess("number", 6)

\* The sets the params of the hook are drawn from
MaxAccepts == 3
BalanceNetworks == {Net_84532, Net_8453, Net_11155111, Net_Legacy}
AcceptLists ==
  UNION {[1..n -> {Requirement(net) : net \in BalanceNetworks}] : n \in 0..MaxAccepts}
BalanceParams ==
  [accepts : AcceptLists,
   chainConfig : {NoChainConfig, BaseMainnet},
   chainConfigs : {NoChainConfigMap,
                   ChainConfigMap(Net_11155111 :> Misconfigured @@ Net_8453 :> BaseMainnet)},
   address : {"", "0xabc"},
   showBalances : BOOLEAN]

outsideBalances ==
  <<actionLockRef, actionNonceRef, isActionBusy, state, inv, returned, lockCalls,
    componentVars, componentActionVars, helperCall>>

\* useReadContracts issues its request: only when the query is enabled
BalanceQueryFetches ==
  /\ balanceQuery.status = "idle"
  /\ balanceQueryEnabled(balanceParams.showBalances, balanceParams.address, BalanceContracts)
  /\ balanceQuery' = [balanceQuery EXCEPT !.status = "fetching",
                                           !.contracts = BalanceContracts]
  /\ UNCHANGED balanceParams
  /\ UNCHANGED outsideBalances

\* The request settles: one result per call, failures included
BalanceQuerySettles(reads) ==
  /\ balanceQuery.status = "fetching"
  /\ \A c \in ReadChains :
       Unread(~\E k \in DOMAIN balanceQuery.contracts : balanceQuery.contracts[k].chainId = c,
              reads[c], "ok")
  /\ balanceQuery' =
       [balanceQuery EXCEPT
          !.status = "success", !.hasData = TRUE, !.reads = reads,
          !.data = [k \in DOMAIN balanceQuery.contracts |->
                      ReadResult(balanceQuery.contracts[k],
                                 reads[balanceQuery.contracts[k].chainId])]]
  /\ UNCHANGED balanceParams
  /\ UNCHANGED outsideBalances

BalanceInit ==
  /\ HooksInit
  /\ ComponentInit
  /\ balanceParams \in BalanceParams
  /\ helperCall = NoCall

BalanceNext ==
  \/ BalanceQueryFetches
  \/ \E reads \in [ReadChains -> ReadOutcomes] : BalanceQuerySettles(reads)

BalanceSpec == BalanceInit /\ [][BalanceNext]_vars

----------------------------------------------------------------------------
(* C14 *)

BalancesShown == balanceParams.showBalances /\ balanceParams.address # ""

\* C14: when balances are enabled and an address is connected, the hook
\* returns one BalanceInfo per accepted requirement, the i-th carrying the
\* network of accepts[i], whether or not the query has data.
C14_OneBalancePerRequirement ==
  BalancesShown =>
    /\ Len(Balances) = Len(balanceParams.accepts)
    /\ \A i \in DOMAIN Balances : Balances[i].network = balanceParams.accepts[i].network

----------------------------------------------------------------------------
(* C15 *)

\* Entry i resolved on its own: the configuration of accepts[i] alone
OwnEntry(i) ==
  buildBalanceConfigs(<<balanceParams.accepts[i]>>, balanceParams.chainConfig,
                      balanceParams.chainConfigs)[1]

OwnEntryInError(i) == ~OwnEntry(i).config.defined \/ OwnEntry(i).error # ""

\* What entry i must show, from its own resolution and from what its own
\* chain answered to balanceOf and decimals
OwnBalance(i) ==
  LET entry == OwnEntry(i)
      outcome == balanceQuery.reads[entry.config.chainId]
      failed(message) ==
        BalanceInfo(entry.accept.network,
                    IF entry.config.defined THEN entry.config.name ELSE "Unknown chain",
                    NullBalance, message)
  IN IF ~entry.config.defined THEN failed("Missing chain configuration")
     ELSE IF entry.error # "" THEN failed(entry.error)
     ELSE CASE outcome = "balanceFails" -> failed("execution reverted")
            [] outcome = "decimalsFails" -> failed("Failed to fetch balance")
            [] outcome = "noResult" -> failed("Balance unavailable")
            [] OTHER -> BalanceInfo(entry.accept.network, entry.config.name,
                                    FormatUnits(BalanceOnChain(entry.config.chainId), 6), "")

ErrorEntries == {i \in DOMAIN balanceParams.accepts : OwnEntryInError(i)}
NthErrorEntry(j) ==
  CHOOSE i \in ErrorEntries : Cardinality({e \in ErrorEntries : e < i}) = j - 1

\* C15: what the hook shows for entry i is what entry i's own resolution
\* and its own two reads give, whatever the other entries are: with data,
\* the i-th BalanceInfo is entry i's own; without data, the entries shown
\* are the entries in error, each with its own error.
C15_EntriesAreIndependent ==
  BalancesShown =>
    IF balanceQuery.hasData
    THEN /\ Len(Balances) = Len(balanceParams.accepts)
         /\ \A i \in DOMAIN Balances : Balances[i] = OwnBalance(i)
    ELSE /\ Len(Balances) = Cardinality(ErrorEntries)
         /\ \A j \in DOMAIN Balances : Balances[j] = OwnBalance(NthErrorEntry(j))

C15_Witness ==
  /\ balanceQuery.hasData
  /\ balanceParams.showBalances
  /\ Len(Balances) = 3
  /\ Balances[1].error = MsgInvalidUsdcAddress
  /\ Balances[2].error = "execution reverted"
  /\ Balances[3].error = "" /\ Balances[3].network = Net_84532
  /\ Balances[3].balance = FormatUnits(BalanceOnChain(BaseSepolia.chainId), 6)

----------------------------------------------------------------------------
(* C16 *)

\* The entries that resolve to a configuration with a valid asset address
ReadableEntries == {i \in DOMAIN balanceParams.accepts : ~OwnEntryInError(i)}
NthReadableEntry(j) ==
  CHOOSE i \in ReadableEntries : Cardinality({e \in ReadableEntries : e < i}) = j - 1

ResolutionFailed(i) ==
  ~resolveChain(balanceParams.accepts[i], balanceParams.chainConfig,
                balanceParams.chainConfigs).defined

\* C16: no request is issued while showBalances is false or no address is
\* connected; a request that is issued holds two calls for each entry
\* that resolved, against that entry's chain and asset, and none for any
\* other entry; an entry whose resolution failed shows 'Missing chain
\* configuration'.
C16_NoReadWithoutResolution ==
  /\ ~BalancesShown => (balanceQuery.status = "idle" /\ balanceQuery.contracts = <<>>)
  /\ balanceQuery.status # "idle" =>
       /\ Len(balanceQuery.contracts) = 2 * Cardinality(ReadableEntries)
       /\ \A k \in DOMAIN balanceQuery.contracts :
            LET own == OwnEntry(NthReadableEntry((k + 1) \div 2))
            IN /\ balanceQuery.contracts[k].chainId = own.config.chainId
               /\ balanceQuery.contracts[k].address = own.config.usdcAddress
  /\ BalancesShown =>
       \A i \in DOMAIN balanceParams.accepts :
         ResolutionFailed(i) =>
           \E j \in DOMAIN Balances :
             /\ balanceQuery.hasData => j = i
             /\ Balances[j].network = balanceParams.accepts[i].network
             /\ Balances[j].error = "Missing chain configuration"
             /\ Balances[j].balance.isNull

C16_Witness ==
  /\ balanceQuery.status = "success"
  /\ Len(balanceParams.accepts) = 3
  /\ ResolutionFailed(1) /\ ResolutionFailed(3)
  /\ Len(balanceQuery.contracts) = 2
  /\ Balances[3].error = MsgMissingChainConfiguration

----------------------------------------------------------------------------
(* X402Paywall (Paywall.tsx): fetchBalances and the effect that calls it   *)

\* The props of the component: two accepted requirements, the first on the
\* built-in chain, the second on a network nothing resolves.
PropAccepts == <<Requirement(Net_84532), Requirement(Net_Legacy)>>
PropChainConfig == NoChainConfig
PropChainConfigs == NoChainConfigMap
PropShowBalances == TRUE

\* Line 199: resolveChain(accepts[acceptIndex], ...), acceptIndex = 0
ResolvedChain == resolveChain(PropAccepts[1], PropChainConfig, PropChainConfigs)

Accounts == {"0xaaa", "0xbbb"}

\* What balanceOf answers for an account, in atomic units
AccountBalance(address, chainId) ==
  (IF address = "0xaaa" THEN 1 ELSE 2) * 1000000 + (chainId % 1000)

\* How the two reads of one entry settle: NoThrown when both resolve, else
\* the value the first rejection carries
ReadSettlements == {NoThrown, ThrownBoom, ThrownEmptyError, ThrownZero, ThrownNullish}

\* Lines 503-550: the BalanceInfo the map callback returns for one accept
FetchedBalance(accept, address, settled) ==
  LET config == resolveChain(accept, PropChainConfig, PropChainConfigs)
  IN IF ~config.defined
     THEN BalanceInfo(accept.network, "Unknown chain", NullBalance,
                      MsgMissingChainConfiguration)
     ELSE IF settled = NoThrown
     THEN BalanceInfo(accept.network, config.name,
                      FormatUnits(AccountBalance(address, config.chainId), 6), "")
     ELSE BalanceInfo(accept.network, config.name, NullBalance,
                      MessageOr(settled, MsgFailedToFetchBalance))

\* Line 547 reads .message of the caught value: on null / undefined the
\* catch block throws and Promise.all rejects.
FetchRejected(settled) ==
  /\ settled.nullish
  /\ \E k \in DOMAIN PropAccepts :
       resolveChain(PropAccepts[k], PropChainConfig, PropChainConfigs).defined

BalanceResults(address, settled) ==
  [k \in DOMAIN PropAccepts |-> FetchedBalance(PropAccepts[k], address, settled)]

\* One invocation of fetchBalances: pending, then done with its results or
\* rejected
FetchCall(address, status, results) ==
  [address |-> address, status |-> status, results |-> results]

outsideComponent ==
  <<actionLockRef, actionNonceRef, isActionBusy, state, inv, returned, lockCalls,
    balanceParams, balanceQuery, componentActionVars, helperCall>>

\* Lines 229-235 and 270-273: the wallet reports another account; the
\* effect runs with the new connectedAddress and calls fetchBalances
\* (lines 497-502), which suspends at Promise.all.
AccountsChanged(address) ==
  /\ address # connectedAddress
  /\ Len(fetchCalls) < MaxFetches
  /\ connectedAddress' = address
  /\ IF PropShowBalances /\ ResolvedChain.defined /\ Len(PropAccepts) > 0
     THEN /\ isLoadingBalances' = TRUE
          /\ fetchCalls' = Append(fetchCalls, FetchCall(address, "pending", <<>>))
     ELSE UNCHANGED <<isLoadingBalances, fetchCalls>>
  /\ UNCHANGED paywallBalances
  /\ UNCHANGED outsideComponent

\* Lines 230-232 and 286-303: no account left, resetState, on the address
\* and the balances (ResetStateRuns is resetState on every state it sets)
AccountsEmptied ==
  /\ connectedAddress # ""
  /\ connectedAddress' = ""
  /\ paywallBalances' = <<>>
  /\ UNCHANGED <<isLoadingBalances, fetchCalls>>
  /\ UNCHANGED outsideComponent

\* Lines 502-556: Promise.all settles and the invocation runs to its end
FetchBalancesSettles(i, settled) ==
  /\ i \in DOMAIN fetchCalls
  /\ fetchCalls[i].status = "pending"
  /\ LET results == BalanceResults(fetchCalls[i].address, settled)
     IN IF FetchRejected(settled)
        THEN /\ fetchCalls' = [fetchCalls EXCEPT ![i].status = "rejected"]
             /\ UNCHANGED paywallBalances
        ELSE /\ fetchCalls' = [fetchCalls EXCEPT ![i].status = "done", ![i].results = results]
             /\ paywallBalances' = results
  /\ isLoadingBalances' = FALSE
  /\ UNCHANGED connectedAddress
  /\ UNCHANGED outsideComponent

ComponentNext ==
  \/ \E address \in Accounts : AccountsChanged(address)
  \/ AccountsEmptied
  \/ \E i \in 1..MaxFetches, settled \in ReadSettlements : FetchBalancesSettles(i, settled)

ComponentSpec == Init /\ [][ComponentNext]_vars

----------------------------------------------------------------------------
(* C17 *)

Pending == {i \in DOMAIN fetchCalls : fetchCalls[i].status = "pending"}

\* C17: once no invocation of fetchBalances is pending, if the latest one
\* was made after an earlier one and has stored its results, and no
\* disconnect followed it, the balances of the component are the latest
\* invocation's results.
C17_LatestFetchWins ==
  LET last == Len(fetchCalls)
  IN (/\ last >= 2
      /\ Pending = {}
      /\ fetchCalls[last].status = "done"
      /\ connectedAddress = fetchCalls[last].address)
     => paywallBalances = fetchCalls[last].results

----------------------------------------------------------------------------
(* X402Paywall (Paywall.tsx): connectInjected, connectWalletConnect,        *)
(* signPayment and resetState.  The component keeps no lock and no token:   *)
(* each invocation is a task suspended at an await, and the buttons that    *)
(* start one are the buttons the render shows for the current status.      *)

MaxComponentCalls == 3   \* invocations of the component's actions

\* Lines 275-284: showError, onError returning
X402ShowError(c, message) ==
  [c EXCEPT !.errorMessage = IF message = "" THEN GenericFailureText ELSE message,
            !.status = "error"]

\* Lines 286-303: resetState, on the states of the model
X402ResetState(c) ==
  [c EXCEPT !.providerInfo = "", !.errorMessage = "",
            !.processingText = DEFAULT_PROCESSING_TEXT, !.status = "connect"]

\* One invocation in flight: the function, the await it is suspended at,
\* the accounts the wallet returned to it, and whether resetState has run
\* since it was called
ComponentAction(id, fn, pc, accounts, resetSince) ==
  [id |-> id, fn |-> fn, pc |-> pc, accounts |-> accounts, resetSince |-> resetSince]

ConnectFunctions == {"connectInjected", "connectWalletConnect"}

\* Lines 711-717, 393-399 and 489-494: the catch block of each function.
\* Reading .code of null / undefined throws inside the catch block.
X402Catch(fn, c, err) ==
  CASE fn = "signPayment" ->
         IF err.nullish THEN c
         ELSE IF err.code = 4001 THEN X402ShowError(c, "Transaction rejected by user")
         ELSE X402ShowError(c, MessageOr(err, GenericFailureText))
    [] fn = "connectInjected" ->
         IF err.nullish THEN c
         ELSE IF err.code = 4001 THEN X402ShowError(c, MsgConnectionRejected)
         ELSE X402ShowError(c, MessageOr(err, MsgConnectFailed))
    [] OTHER ->
         IF err.nullish THEN c
         ELSE X402ShowError(c, MessageOr(err, "Failed to connect via WalletConnect"))

\* Lines 319-352: what ensureChain throws when the switch request rejects
X402EnsureChainError(switchError) ==
  IF switchError.nullish THEN TypeErrorNullRead
  ELSE IF switchError.code = 4001 THEN NewError("Network switch rejected by user.")
  ELSE NewError(MessageOr(switchError, SwitchGuidance(ResolvedChain.name)))

outsideComponentActions ==
  <<actionLockRef, actionNonceRef, isActionBusy, state, inv, returned, lockCalls,
    balanceParams, balanceQuery, helperCall>>

\* A button of the render is clicked, or the wallet emits an event
ComponentCalled ==
  /\ component.calls < MaxComponentCalls
  /\ Len(componentActions) < MaxInvocations

\* The call returns before its first await, having shown an error
ShowsErrorAtOnce(message) ==
  /\ component' = [X402ShowError(component, message) EXCEPT !.calls = @ + 1]
  /\ UNCHANGED <<componentActions, componentVars>>
  /\ UNCHANGED outsideComponentActions

\* The call runs up to its first await
Starts(fn, pc, text) ==
  /\ component' = [component EXCEPT !.status = "processing", !.processingText = text,
                                    !.calls = @ + 1]
  /\ componentActions' =
       Append(componentActions, ComponentAction(component.calls + 1, fn, pc, <<>>, FALSE))
  /\ UNCHANGED componentVars
  /\ UNCHANGED outsideComponentActions

\* Lines 355-380, from the button of line 787 (shown while status is
\* 'connect'), on a desktop browser
ConnectInjectedCall(hasInjectedWallet) ==
  /\ ComponentCalled
  /\ component.status = "connect"
  /\ IF ~hasInjectedWallet
     THEN ShowsErrorAtOnce("No wallet detected. Please install MetaMask or another Web3 wallet.")
     ELSE IF ~ResolvedChain.defined THEN ShowsErrorAtOnce(MsgMissingChain)
     ELSE Starts("connectInjected", "eth_requestAccounts", "Connecting wallet...")

\* Lines 402-419, from the button of line 796 (shown while status is
\* 'connect' and WalletConnect is configured)
ConnectWalletConnectCall ==
  /\ ComponentCalled
  /\ component.status = "connect"
  /\ IF ~ResolvedChain.defined THEN ShowsErrorAtOnce(MsgMissingChain)
     ELSE Starts("connectWalletConnect", "import", "Opening WalletConnect...")

\* Lines 559-583, from the button of line 841 (shown while status is
\* 'connected'); the requirement of the props has all its fields
X402SignPaymentCall ==
  /\ ComponentCalled
  /\ component.status = "connected"
  /\ IF component.providerInfo = "" \/ connectedAddress = ""
     THEN ShowsErrorAtOnce(MsgWalletNotConnected)
     ELSE IF ~ResolvedChain.defined THEN ShowsErrorAtOnce(MsgMissingRequirement)
     ELSE Starts("signPayment", "ensureChain", "Checking network...")

\* The invocation stays suspended, at the await named pc
Awaits(i, pc, c, accounts) ==
  /\ component' = c
  /\ componentActions' = [componentActions EXCEPT ![i].pc = pc, ![i].accounts = accounts]
  /\ UNCHANGED componentVars
  /\ UNCHANGED outsideComponentActions

\* The invocation returns
Ends(i, c) ==
  /\ component' = c
  /\ componentActions' =
       SubSeq(componentActions, 1, i - 1)
       \o SubSeq(componentActions, i + 1, Len(componentActions))
  /\ UNCHANGED componentVars
  /\ UNCHANGED outsideComponentActions

\* Lines 390-392 and 486-488: the connection is stored; the effect of lines
\* 270-273 then calls fetchBalances for the new address
Connects(i) ==
  LET address == componentActions[i].accounts[1]
      source == IF componentActions[i].fn = "connectInjected" THEN "injected"
                ELSE "walletconnect"
      fetches == /\ PropShowBalances /\ ResolvedChain.defined /\ Len(PropAccepts) > 0
                 /\ address # connectedAddress
                 /\ Len(fetchCalls) < MaxFetches
  IN /\ component' = [component EXCEPT !.providerInfo = source, !.status = "connected"]
     /\ componentActions' =
          SubSeq(componentActions, 1, i - 1)
          \o SubSeq(componentActions, i + 1, Len(componentActions))
     /\ connectedAddress' = address
     /\ isLoadingBalances' = (fetches \/ isLoadingBalances)
     /\ fetchCalls' = IF fetches THEN Append(fetchCalls, FetchCall(address, "pending", <<>>))
                      ELSE fetchCalls
     /\ UNCHANGED paywallBalances
     /\ UNCHANGED outsideComponentActions

\* How an awaited call of the component resolves: the accounts the wallet
\* returns, whether the addresses of the message are valid, the response
\* and its body, and whether onSuccess throws
Resolution(accounts, prepared, ok, body, successThrows) ==
  [accounts |-> accounts, prepared |-> prepared, ok |-> ok, body |-> body,
   successThrows |-> successThrows]

PlainResolution == Resolution(<<>>, TRUE, TRUE, EmptyBody, FALSE)

ComponentBodies ==
  {JsonObjectBody(JsUndefined), JsonObjectBody(JsString("Insufficient funds")),
   JsonNullBody, TextBody, EmptyBody}

\* The resolutions the code can tell apart at each await
Resolutions(pc) ==
  CASE pc = "eth_requestAccounts" ->
         {[PlainResolution EXCEPT !.accounts = a] : a \in {<<>>, <<"0xaaa">>}}
    [] pc = "ensureChain" -> {[PlainResolution EXCEPT !.prepared = p] : p \in BOOLEAN}
    [] pc = "fetch" -> {[PlainResolution EXCEPT !.ok = ok] : ok \in BOOLEAN}
    [] pc = "errorJson" -> {[PlainResolution EXCEPT !.body = b] : b \in ComponentBodies}
    [] pc = "json" ->
         {[PlainResolution EXCEPT !.body = b, !.successThrows = t] :
            b \in ComponentBodies, t \in BOOLEAN}
    [] pc = "text" ->
         {[PlainResolution EXCEPT !.body = b, !.successThrows = t] :
            b \in {TextBody, EmptyBody}, t \in BOOLEAN}
    [] OTHER -> {PlainResolution}

AllResolutions ==
  UNION {Resolutions(pc) :
           pc \in {"import", "eth_requestAccounts", "ensureChain", "fetch", "errorJson",
                   "json", "text"}}

\* Lines 691-693: setStatus('success'), then onSuccess
X402Succeeds(i, v) ==
  LET c == [component EXCEPT !.status = "success"]
  IN Ends(i, IF v.successThrows THEN X402Catch("signPayment", c, ThrownBoom) ELSE c)

\* The call the invocation awaits resolves and the invocation runs to its
\* next await or to its end
ActionResolves(i, v) ==
  /\ i \in DOMAIN componentActions
  /\ v \in Resolutions(componentActions[i].pc)
  /\ LET a == componentActions[i]
         text(t) == [component EXCEPT !.processingText = t]
     IN IF a.fn \in ConnectFunctions
        THEN CASE a.pc = "import" -> Awaits(i, "init", component, <<>>)
               [] a.pc = "init" -> Awaits(i, "enable", component, <<>>)
               [] a.pc = "enable" -> Awaits(i, "eth_requestAccounts", component, <<>>)
               [] a.pc = "eth_requestAccounts" ->
                    IF v.accounts = <<>>
                    THEN Ends(i, X402Catch(a.fn, component, NewError("No accounts returned")))
                    ELSE Awaits(i, "ensureChain", component, v.accounts)
               [] OTHER -> /\ v = PlainResolution
                           /\ Connects(i)
        ELSE CASE a.pc = "ensureChain" ->
                    IF ~v.prepared
                    THEN Ends(i, X402Catch(a.fn, text("Preparing payment..."),
                                           NewError("Address is invalid.")))
                    ELSE Awaits(i, "signTypedData", text("Please sign in your wallet..."),
                                <<>>)
               [] a.pc = "signTypedData" ->
                    Awaits(i, "fetch", text("Submitting payment..."), <<>>)
               [] a.pc = "fetch" ->
                    Awaits(i, IF v.ok THEN "json" ELSE "errorJson", component, <<>>)
               [] a.pc = "errorJson" ->
                    Ends(i, X402Catch(a.fn, component,
                                      IF v.body.kind = "null" THEN TypeErrorNullRead
                                      ELSE NewError(IF JsonParses(v.body) /\ ~Falsy(v.body.message)
                                                    THEN v.body.message.v
                                                    ELSE MsgVerificationFailed)))
               [] a.pc = "json" ->
                    IF JsonParses(v.body) THEN X402Succeeds(i, v)
                    ELSE /\ v = [PlainResolution EXCEPT !.body = TextBody]
                         /\ Awaits(i, "text", component, <<>>)
               [] OTHER ->
                    IF TextAfterJsonResolves(v.body) THEN X402Succeeds(i, v)
                    ELSE /\ ~v.successThrows
                         /\ Ends(i, X402Catch(a.fn, component, TypeErrorBodyUsed))

ComponentThrown == {ThrownBoom, ThrownCode4001Text, ThrownNullish}

\* The call the invocation awaits rejects: its catch block runs
ActionRejects(i, err) ==
  /\ i \in DOMAIN componentActions
  /\ componentActions[i].pc \notin {"errorJson", "json", "text"}
  /\ Ends(i, X402Catch(componentActions[i].fn, component,
                       IF componentActions[i].pc = "ensureChain"
                       THEN X402EnsureChainError(err) ELSE err))

\* resetState runs: from handleAccountsChanged with no account (lines
\* 229-233, a listener that is registered while providerInfo is set), or
\* from the buttons of lines 851 and 905 (shown while status is 'connected'
\* or 'error')
ResetStateRuns(cause) ==
  /\ \/ cause = "accountsChanged" /\ component.providerInfo # ""
     \/ cause = "button" /\ component.status \in {"connected", "error"}
  /\ component' = X402ResetState(component)
  /\ componentActions' =
       [k \in DOMAIN componentActions |-> [componentActions[k] EXCEPT !.resetSince = TRUE]]
  /\ connectedAddress' = ""
  /\ paywallBalances' = <<>>
  /\ UNCHANGED <<isLoadingBalances, fetchCalls>>
  /\ UNCHANGED outsideComponentActions

X402Next ==
  \/ \E hasInjectedWallet \in BOOLEAN : ConnectInjectedCall(hasInjectedWallet)
  \/ ConnectWalletConnectCall
  \/ X402SignPaymentCall
  \/ \E i \in Invocations, v \in AllResolutions : ActionResolves(i, v)
  \/ \E i \in Invocations, err \in ComponentThrown : ActionRejects(i, err)
  \/ \E cause \in {"accountsChanged", "button"} : ResetStateRuns(cause)
  \/ \E i \in 1..MaxFetches : FetchBalancesSettles(i, NoThrown)

X402Spec == Init /\ [][X402Next]_vars

----------------------------------------------------------------------------
(* paywall-helpers: pickRequirement.  A Number is finite (a sign, a whole  *)
(* part and whether a fraction follows), NaN, or an infinity.              *)

JsFinite(negative, whole, fraction) ==
  [kind |-> "finite", negative |-> negative, whole |-> whole, fraction |-> fraction]
JsNaN == [kind |-> "NaN", negative |-> FALSE, whole |-> 0, fraction |-> FALSE]
JsInfinity(negative) ==
  [kind |-> "Infinity", negative |-> negative, whole |-> 0, fraction |-> FALSE]

NumberIsFinite(x) == x.kind = "finite"

\* Math.trunc(x) of a finite x; -0 stands as 0, which compares and indexes
\* as 0 does
MathTrunc(x) == IF x.negative THEN 0 - x.whole ELSE x.whole

\* A pick that indexes without the range check
pickRequirementUnchecked(accepts, acceptIndex) ==
  IF Len(accepts) = 0 THEN NoRequirement
  ELSE LET index == IF NumberIsFinite(acceptIndex) THEN MathTrunc(acceptIndex) ELSE 0
       IN IF index + 1 \in DOMAIN accepts THEN accepts[index + 1] ELSE NoRequirement

pickRequirement(accepts, acceptIndex) ==
  IF Len(accepts) = 0 THEN NoRequirement
  ELSE LET index == IF NumberIsFinite(acceptIndex) THEN MathTrunc(acceptIndex) ELSE 0
       IN IF index >= 0 /\ index < Len(accepts) THEN accepts[index + 1] ELSE accepts[1]

----------------------------------------------------------------------------
(* The helper functions called on their own, on arguments drawn from the   *)
(* sets below                                                               *)

HelperCall(fn, args) == [fn |-> fn, args |-> args, returned |-> FALSE, result |-> <<>>]

ResolveChainRequirements ==
  {NoRequirement} \cup
  {Requirement(net) :
     net \in {<<>>, Net_84532, Net_8453, Net_8453_Upper, Net_0, Net_5, Net_Legacy}}
ResolveChainConfigs == {NoChainConfig, BaseMainnet, BaseSepolia}
ResolveChainMaps ==
  {NoChainConfigMap, ChainConfigMap(<<>>),
   ChainConfigMap(Net_8453 :> BaseMainnet @@ Net_5 :> Misconfigured),
   ChainConfigMap(Net_84532 :> Misconfigured @@ Net_0 :> Misconfigured)}

\* Network identifiers: absent or empty, well formed, in upper case,
\* without digits, of another namespace, and the pattern with characters
\* before it, after it, or both
NetworkInputs ==
  {<<>>, Net_84532, Net_8453, Net_8453_Upper, Net_0, Net_5, Net_Legacy,
   Eip155Prefix,
   <<"s", "o", "l", "a", "n", "a", ":", "5">>,
   <<"x">> \o Net_5,
   Net_5 \o <<"x">>,
   Net_8453 \o <<"/", "e", "r", "c", "2", "0", ":", "0", "x", "a">>,
   <<"c", "a", "i", "p", "-">> \o Net_84532 \o <<" ">>,
   <<"e", "i", "p", "1", "5", "5", ":", "0", "0", "7">>}

\* States of the reducer, and the actions the hook dispatches
ReducerStates ==
  [status : PaywallStatuses,
   errorMessage : {"", "boom"},
   processingText : {DEFAULT_PROCESSING_TEXT, "Checking network..."}]
ReducerActions ==
  {[type |-> "setStatus", status |-> s] : s \in PaywallStatuses}
  \cup {[type |-> "setProcessingText", text |-> t] :
          t \in {DEFAULT_PROCESSING_TEXT, "Checking network...", ""}}
  \cup {[type |-> "setError", message |-> m] : m \in {GenericFailureText, "boom"}}
  \cup {[type |-> "reset", status |-> s, processingText |-> DEFAULT_PROCESSING_TEXT] :
          s \in PaywallStatuses}
  \cup {[type |-> "unknown"]}

AmountInputs ==
  {JsStrNull,
   JsStr(<<>>),
   JsStr(<<"2", "5", "0", "0">>),
   JsStr(<<"0">>),
   JsStr(<<"0", "0", "7">>),
   JsStr(<<"1", ".", "5">>),
   JsStr(<<"0", ".", "0", "1">>),
   JsStr(<<"1", ".", "1", "2", "3", "4", "5", "6", "7">>),
   JsStr(<<"0", ".", "0", "0", "0", "0", "0", "1", "9">>),
   JsStr(<<"a", "b", "c", ".", "1", "2", "3", "4", "5", "6", "7">>),
   JsStr(<<"1", "2", ".", "5">>),
   JsStr(<<".", "5">>),
   JsStr(<<"5", ".">>),
   JsStr(<<".">>),
   JsStr(<<"1", ".", "2", ".", "3">>),
   JsStr(<<"-", "5">>),
   JsStr(<<"-", "1", ".", "5">>),
   JsStr(<<"a", "b", "c">>),
   JsStr(<<"1", "e", "3">>),
   JsStr(<<"a", "b", "c", ".", "5">>),
   JsStr(<<"0", ".", "0", "0", "0", "0", "0", "0">>),
   JsStr(<<"-", ".", "0">>)}

\* Amounts given to the component's normalizer: the amounts above, and
\* amounts with zeros in front of the whole part and behind the fraction
X402AmountInputs ==
  AmountInputs
  \cup {JsStr(<<"0", "0", ".", "5", "0">>),
        JsStr(<<"0", "1", "0", ".", "0", "0", "0", "0", "0", "1">>),
        JsStr(<<"0", ".", "0">>),
        JsStr(<<"3", ".", "0", "0", "0", "0", "0", "0", "0", "9">>)}

\* Atomic amounts to display: the amounts above, their normalized forms,
\* amounts around one cent, decimal ties, and 10^20 and 10^21 units
DisplayInputs ==
  AmountInputs
  \cup {normalizeAtomicAmount(a) : a \in AmountInputs}
  \cup {JsStr(<<"1", "0", "0", "0", "0">>),
        JsStr(<<"9", "9", "9", "9">>),
        JsStr(<<"5", "0", "0", "0">>),
        JsStr(<<"1", "0", "0", "5", "0", "0", "0">>),
        JsStr(<<"1", "9", "9", "9", "9", "9", "9">>),
        JsStr(<<"9", "9", "9", "9", "9", "9">>),
        JsStr(<<"-">>),
        JsStr(<<"+", "5", "0", "0", "0", "0">>),
        JsStr(<<"1">> \o Zeros(26)),
        JsStr(<<"1">> \o Zeros(27)),
        JsStr(<<"2", "5">> \o Zeros(27))}

\* acceptIndex: negative, in range, too large, fractional, NaN, infinite
AcceptIndexes ==
  {JsFinite(negative, whole, fraction) :
     negative \in BOOLEAN, whole \in 0..(MaxAccepts + 1), fraction \in BOOLEAN}
  \cup {JsNaN, JsInfinity(FALSE), JsInfinity(TRUE)}

\* Values to classify: the thrown values above, a thrown string, and
\* objects whose message is a number
ThrownText == Thrown(FALSE, TRUE, FALSE, "String", 0, "", JsUndefined)
ThrownStatusMessage == Thrown(FALSE, TRUE, FALSE, "Object", 0, "", JsNumber("42"))
ThrownZeroMessage == Thrown(FALSE, TRUE, FALSE, "Object", 0, "", JsNumber("0"))
ThrownCode4001StatusMessage ==
  Thrown(FALSE, TRUE, FALSE, "Object", 4001, "", JsNumber("42"))
ThrownEmptyMessage == Thrown(FALSE, TRUE, FALSE, "Object", 0, "", JsString(""))
ClassifiedValues ==
  ThrownValues \cup {ThrownText, ThrownStatusMessage, ThrownZeroMessage,
                     ThrownCode4001StatusMessage, ThrownEmptyMessage,
                     NewError("Payment declined: user rejected terms")}

HelperCalls ==
  {HelperCall("resolveChain", <<r, c, m>>) :
     r \in ResolveChainRequirements, c \in ResolveChainConfigs, m \in ResolveChainMaps}
  \cup {HelperCall("normalizeAtomicAmount", <<a>>) : a \in AmountInputs}
  \cup {HelperCall("x402NormalizeAtomicAmount", <<a>>) : a \in X402AmountInputs}
  \cup {HelperCall("parseAmountDisplay", <<a>>) : a \in DisplayInputs}
  \cup {HelperCall("pickRequirement", <<accepts, acceptIndex>>) :
          accepts \in AcceptLists, acceptIndex \in AcceptIndexes}
  \cup {HelperCall("parseNetworkChainId", <<network>>) : network \in NetworkInputs}
  \cup {HelperCall("paywallReducer", <<st, action>>) :
          st \in ReducerStates, action \in ReducerActions}
  \cup {HelperCall("isUserRejection", <<error>>) : error \in ClassifiedValues}
  \cup {HelperCall("isAlreadyConnected", <<error>>) : error \in ClassifiedValues}

outsideHelpers ==
  <<actionLockRef, actionNonceRef, isActionBusy, state, inv, returned, lockCalls,
    balanceParams, balanceQuery, componentVars, componentActionVars>>

Returns(fn, result) ==
  /\ helperCall.fn = fn
  /\ ~helperCall.returned
  /\ helperCall' = [helperCall EXCEPT !.returned = TRUE, !.result = result]
  /\ UNCHANGED outsideHelpers

ResolveChainReturns ==
  Returns("resolveChain",
          resolveChain(helperCall.args[1], helperCall.args[2], helperCall.args[3]))

NormalizeAtomicAmountReturns ==
  Returns("normalizeAtomicAmount", normalizeAtomicAmount(helperCall.args[1]))

ParseAmountDisplayReturns ==
  \E tieUp \in BOOLEAN :
    Returns("parseAmountDisplay", parseAmountDisplay(helperCall.args[1], tieUp))

PickRequirementReturns ==
  Returns("pickRequirement", pickRequirement(helperCall.args[1], helperCall.args[2]))

PaywallReducerReturns ==
  Returns("paywallReducer", paywallReducer(helperCall.args[1], helperCall.args[2]))

X402NormalizeAtomicAmountReturns ==
  Returns("x402NormalizeAtomicAmount", x402NormalizeAtomicAmount(helperCall.args[1]))

ParseNetworkChainIdReturns ==
  Returns("parseNetworkChainId", parseNetworkChainId(helperCall.args[1]))

\* The call returns a boolean or ends with the TypeError of line 136
IsUserRejectionReturns ==
  Returns("isUserRejection",
          IF isUserRejectionThrows(helperCall.args[1])
          THEN [threw |-> TRUE, value |-> FALSE]
          ELSE [threw |-> FALSE, value |-> isUserRejection(helperCall.args[1])])

\* The call returns a boolean or ends with the TypeError of line 380
IsAlreadyConnectedReturns ==
  Returns("isAlreadyConnected",
          IF isAlreadyConnectedThrows(helperCall.args[1])
          THEN [threw |-> TRUE, value |-> FALSE]
          ELSE [threw |-> FALSE, value |-> isAlreadyConnected(helperCall.args[1])])

HelperInit ==
  /\ HooksInit
  /\ ComponentInit
  /\ balanceParams = NoBalanceParams
  /\ helperCall \in HelperCalls

HelperNext ==
  \/ ResolveChainReturns
  \/ NormalizeAtomicAmountReturns
  \/ ParseAmountDisplayReturns
  \/ PickRequirementReturns
  \/ ParseNetworkChainIdReturns
  \/ X402NormalizeAtomicAmountReturns
  \/ PaywallReducerReturns
  \/ IsUserRejectionReturns
  \/ IsAlreadyConnectedReturns

HelperSpec == HelperInit /\ [][HelperNext]_vars

HelperReturned(fn) == helperCall.fn = fn /\ helperCall.returned

----------------------------------------------------------------------------
(* C18 *)

\* The network is of the form eip155:<decimal-chain-id>
HasChainId(network) ==
  /\ Len(network) > Len(Eip155Prefix)
  /\ SubSeq(network, 1, Len(Eip155Prefix)) = Eip155Prefix
  /\ AllDigits(SubSeq(network, Len(Eip155Prefix) + 1, Len(network)))

\* The chain id such a network names
ChainIdOf(network) == NumberOf(SubSeq(network, Len(Eip155Prefix) + 1, Len(network)))

\* chainConfigs[network], else DEFAULT_CHAIN_CONFIGS[network], else undefined
OverrideFor(network, chainConfigs) ==
  IF chainConfigs.defined /\ network \in DOMAIN chainConfigs.map
  THEN chainConfigs.map[network]
  ELSE IF network \in DOMAIN DEFAULT_CHAIN_CONFIGS THEN DEFAULT_CHAIN_CONFIGS[network]
  ELSE NoChainConfig

\* C18: resolveChain returns the single chainConfig when the requirement
\* names no network or a network whose chain id is the config's; the
\* override for the network (chainConfigs, else the built-in map, else
\* undefined) when the ids differ or when no single config is given; and
\* undefined with no requirement and no single config.
C18_ResolveChainPrecedence ==
  HelperReturned("resolveChain") =>
    LET requirement == helperCall.args[1]
        chainConfig == helperCall.args[2]
        chainConfigs == helperCall.args[3]
        network == requirement.network
        named == requirement.defined /\ network # <<>>
    IN /\ (chainConfig.defined /\ ~named) => helperCall.result = chainConfig
       /\ (chainConfig.defined /\ named /\ HasChainId(network)
           /\ ChainIdOf(network) = chainConfig.chainId) => helperCall.result = chainConfig
       /\ (chainConfig.defined /\ named /\ HasChainId(network)
           /\ ChainIdOf(network) # chainConfig.chainId)
            => helperCall.result = OverrideFor(network, chainConfigs)
       /\ (~chainConfig.defined /\ named)
            => helperCall.result = OverrideFor(network, chainConfigs)
       /\ (~chainConfig.defined /\ ~requirement.defined) => ~helperCall.result.defined

----------------------------------------------------------------------------
(* C19 *)

\* C19: for a requirement on eip155:<n> with n different from the chain id
\* of the single chainConfig, resolveChain does not return that chainConfig:
\* it returns the override for the network, undefined when there is none.
C19_NoMismatchedDefault ==
  (/\ HelperReturned("resolveChain")
   /\ helperCall.args[1].defined
   /\ helperCall.args[2].defined
   /\ HasChainId(helperCall.args[1].network)
   /\ ChainIdOf(helperCall.args[1].network) # helperCall.args[2].chainId)
  => /\ helperCall.result # helperCall.args[2]
     /\ helperCall.result = OverrideFor(helperCall.args[1].network, helperCall.args[3])

----------------------------------------------------------------------------
(* C20 *)

\* C20: normalizeAtomicAmount returns, for every input, null or a
\* non-empty string of decimal digits.
C20_NormalizedIsDigitsOrNull ==
  HelperReturned("normalizeAtomicAmount") =>
    \/ helperCall.result.isNull
    \/ (helperCall.result.chars # <<>> /\ AllDigits(helperCall.result.chars))

----------------------------------------------------------------------------
(* C21 *)

\* C21: normalizeAtomicAmount applied to its own result returns that result,
\* for every input: null, empty, integer, decimal or malformed.
C21_NormalizeIsIdempotent ==
  HelperReturned("normalizeAtomicAmount") =>
    normalizeAtomicAmount(helperCall.result) = helperCall.result

\* A decimal amount has been normalized to an atomic amount
C21_Witness ==
  /\ HelperReturned("normalizeAtomicAmount")
  /\ helperCall.args[1] = JsStr(<<"1", ".", "5">>)
  /\ helperCall.result = JsStr(<<"1", "5", "0", "0", "0", "0", "0">>)

----------------------------------------------------------------------------
(* C22 *)

\* W.F with a single "." and more than 6 characters after it
HasLongFraction(chars) ==
  /\ DotFrom(chars, 1) # 0
  /\ DotFrom(chars, DotFrom(chars, 1) + 1) = 0
  /\ Len(chars) - DotFrom(chars, 1) > 6

\* W followed by "." and the first 6 characters of F
TruncatedToSix(chars) == SubSeq(chars, 1, DotFrom(chars, 1) + 6)

\* C22: for an amount W.F with more than 6 fractional digits,
\* normalizeAtomicAmount returns what it returns for W followed by the first
\* 6 digits of F, whether parseUnits accepts the amount or the fallback
\* concatenation is taken.
C22_TruncatesBeyondSixDigits ==
  (/\ HelperReturned("normalizeAtomicAmount")
   /\ ~helperCall.args[1].isNull
   /\ HasLongFraction(helperCall.args[1].chars))
  => helperCall.result =
       normalizeAtomicAmount(JsStr(TruncatedToSix(helperCall.args[1].chars)))

\* 0.0000019 is cut to 0.000001, one atomic unit, where rounding would
\* give two
C22_Witness ==
  /\ HelperReturned("normalizeAtomicAmount")
  /\ helperCall.args[1] = JsStr(<<"0", ".", "0", "0", "0", "0", "0", "1", "9">>)
  /\ helperCall.result = JsStr(<<"1">>)

----------------------------------------------------------------------------
(* C23 *)

\* Decimal digits with an optional sign
IsIntegerString(chars) ==
  LET signed == chars # <<>> /\ chars[1] \in {"-", "+"}
      digits == IF signed THEN Tail(chars) ELSE chars
  IN digits # <<>> /\ AllDigits(digits)

\* The atomic amount a displayed string stands for
AtomicOf(amount) ==
  LET result == normalizeAtomicAmount(amount)
  IN IF result.isNull THEN amount.chars ELSE result.chars

\* The digits of a non-negative atomic amount, without leading zeros
Magnitude(atomic) == StripLeadingZeros(IF atomic[1] = "+" THEN Tail(atomic) ELSE atomic)

\* The amount is a number of at least 0.01, that is 10^4 atomic units
IsCentOrMore(amount) ==
  /\ ~amount.isNull /\ amount.chars # <<>>
  /\ IsIntegerString(AtomicOf(amount))
  /\ AtomicOf(amount)[1] # "-"
  /\ Len(Magnitude(AtomicOf(amount))) >= 5

\* The amount is below 10^21, that is 10^27 atomic units
IsBelowToFixedLimit(amount) == Len(Magnitude(AtomicOf(amount))) <= 27

\* The amount with 2 decimals, from its digits in hundredths
TwoDecimals(hundredths) ==
  SubSeq(hundredths, 1, Len(hundredths) - 2)
  \o <<".">> \o SubSeq(hundredths, Len(hundredths) - 1, Len(hundredths))

\* The 6-decimal fixed-point value rounded to 2 decimals: down, up, or
\* either way on a tie
RoundedDisplays(amount) ==
  LET units == PadStart(Magnitude(AtomicOf(amount)), 7)
      hundredths == SubSeq(units, 1, Len(units) - 4)
      rest == NumberOf(SubSeq(units, Len(units) - 3, Len(units)))
  IN (IF rest <= 5000 THEN {TwoDecimals(hundredths)} ELSE {})
     \cup (IF rest >= 5000 THEN {TwoDecimals(Increment(hundredths))} ELSE {})

TwelveAndAHalf == normalizeAtomicAmount(JsStr(<<"1", "2", ".", "5">>))

\* What C23 says of the amounts in the given range
DisplayAgrees(inRange) ==
  HelperReturned("parseAmountDisplay") =>
    LET amount == helperCall.args[1]
        unparsable ==
          amount.isNull \/ amount.chars = <<>> \/ ~IsIntegerString(AtomicOf(amount))
    IN /\ ~helperCall.result.threw
       /\ unparsable => helperCall.result.chars = ZeroDisplay
       /\ (IsCentOrMore(amount) /\ inRange)
            => helperCall.result.chars \in RoundedDisplays(amount)
       /\ amount = TwelveAndAHalf
            => helperCall.result.chars = <<"1", "2", ".", "5", "0">>

----------------------------------------------------------------------------
(* C24 *)

\* The number, cut to its whole part, is one of 0 .. len - 1
TruncatedInRange(x, len) ==
  /\ x.kind = "finite"
  /\ x.whole < len
  /\ x.negative => x.whole = 0

\* C24: for a non-empty accepts and any acceptIndex, pickRequirement returns
\* the entry at the truncated index when that lies in [0, len), and the
\* first entry otherwise; for an empty accepts it returns undefined.
C24_PickIsClamped ==
  HelperReturned("pickRequirement") =>
    LET accepts == helperCall.args[1]
        acceptIndex == helperCall.args[2]
    IN IF Len(accepts) = 0 THEN helperCall.result = NoRequirement
       ELSE IF TruncatedInRange(acceptIndex, Len(accepts))
       THEN helperCall.result = accepts[acceptIndex.whole + 1]
       ELSE helperCall.result = accepts[1]

\* Index 1.5 of three different requirements picks the second
C24_Witness ==
  /\ HelperReturned("pickRequirement")
  /\ helperCall.args[1] =
       <<Requirement(Net_84532), Requirement(Net_8453), Requirement(Net_Legacy)>>
  /\ helperCall.args[2] = JsFinite(FALSE, 1, TRUE)
  /\ helperCall.result = Requirement(Net_8453)

----------------------------------------------------------------------------
(* C30 *)

RejectionKinds == {"UserRejectedRequestError", "TransactionRejectedRpcError"}

\* The value is a rejection by kind, by code or by message text
IsRejectionShape(e) ==
  \/ e.cls \in RejectionKinds
  \/ e.name \in RejectionKinds
  \/ e.code = 4001
  \/ (e.message.t = "string" /\ LowerIncludesUserRejected(e.message.v))

\* C30: isUserRejection(e) returns true exactly when e is of a known
\* rejection kind (by instance or by name), has code 4001, or has a message
\* containing 'user rejected' in any letter case, and returns false for
\* every other value, null and undefined included.
C30_RejectionExactlyByShape ==
  HelperReturned("isUserRejection") =>
    /\ ~helperCall.result.threw
    /\ helperCall.result.value = IsRejectionShape(helperCall.args[1])

----------------------------------------------------------------------------
(* C26 *)

\* The invocations in flight and the one that returned: input and log
Runs ==
  {[input |-> inv[i].input, log |-> inv[i].log] : i \in DOMAIN inv}
  \cup (IF HasReturned THEN {[input |-> returned.input, log |-> returned.log]} ELSE {})

\* The requests a log replayed
Requests(lg) == {lg[k].data : k \in {j \in DOMAIN lg : lg[j].op = "fetch"}}

\* The payload serialized in the header of the given name
PayloadIn(request, name) == request.init["headers"][name].base64.json

\* C26: the authorization in the payment header has exactly the from, to,
\* value, validAfter, validBefore and nonce of the message signed in the
\* same invocation, the numbers as decimal strings; its value is the
\* normalized atomic amount of the requirement; scheme and network are the
\* requirement's.
C26_HeaderCarriesSignedMessage ==
  \A run \in Runs : \A request \in Requests(run.log) :
    LET message == TypedDataOf(run.log).message
        payload == PayloadIn(request, "x-payment-signature")
        authorization == payload.payload.authorization
    IN /\ DOMAIN authorization =
            {"from", "to", "value", "validAfter", "validBefore", "nonce"}
       /\ authorization.from = message.from
       /\ authorization.to = message.to
       /\ authorization.nonce = message.nonce
       /\ authorization.value = message.value.bigint
       /\ authorization.validAfter = message.validAfter.bigint
       /\ authorization.validBefore = message.validBefore.bigint
       /\ AllDigits(authorization.value)
       /\ AllDigits(authorization.validAfter)
       /\ AllDigits(authorization.validBefore)
       /\ NumberOf(authorization.value)
            = NumberOf(normalizeAtomicAmount(run.input.amountAtomic).chars)
       /\ payload.scheme = run.input.scheme
       /\ payload.network = run.input.network

\* The requirement of 1.5 has been signed and sent as 1500000
C26_Witness ==
  \E run \in Runs : \E request \in Requests(run.log) :
    /\ run.input = DecimalInput
    /\ PayloadIn(request, "x-payment-signature").payload.authorization.value
         = <<"1", "5", "0", "0", "0", "0", "0">>

----------------------------------------------------------------------------
(* C27 *)

\* The names the replay sets itself
PaymentHeaderNames == {"x-payment-signature", "payment-signature", "accept"}

\* The caller's headers, by lower-case name
CallerHeaders(requestInit) ==
  IF requestInit.defined /\ "headers" \in DOMAIN requestInit.options
  THEN [n \in {LowerName(k) : k \in DOMAIN requestInit.options["headers"]} |->
          requestInit.options["headers"][
            CHOOSE k \in DOMAIN requestInit.options["headers"] : LowerName(k) = n]]
  ELSE <<>>

\* The method fetch uses: the method option, GET when it is undefined
MethodOf(init) ==
  IF "method" \in DOMAIN init /\ init["method"] # JsUndefined THEN init["method"]
  ELSE JsString("GET")

\* C27: the replayed request carries one payment header under both
\* X-PAYMENT-SIGNATURE and PAYMENT-SIGNATURE and Accept: application/json;
\* the caller's method (GET when none is given), body, other fetch options
\* and other headers are those of requestInit.
C27_ReplayKeepsCallerRequest ==
  \A run \in Runs : \A request \in Requests(run.log) :
    LET requestInit == run.input.requestInit
        init == request.init
        headers == init["headers"]
        caller == CallerHeaders(requestInit)
    IN /\ headers["x-payment-signature"] = headers["payment-signature"]
       /\ headers["accept"] = HeaderText("application/json")
       /\ DOMAIN headers = DOMAIN caller \cup PaymentHeaderNames
       /\ \A n \in DOMAIN caller \ PaymentHeaderNames : headers[n] = caller[n]
       /\ DOMAIN init = DOMAIN requestInit.options \cup {"method", "headers"}
       /\ \A k \in DOMAIN requestInit.options \ {"method", "headers"} :
            init[k] = requestInit.options[k]
       /\ MethodOf(init) =
            (IF requestInit.defined THEN MethodOf(requestInit.options)
             ELSE JsString("GET"))

\* A POST with the caller's Authorization header and body has been replayed
C27_Witness ==
  \E run \in Runs : \E request \in Requests(run.log) :
    /\ run.input.requestInit = PostInit
    /\ request.init["method"] = JsString("POST")
    /\ request.init["headers"]["authorization"] = HeaderText("Bearer t")

----------------------------------------------------------------------------
(* C28 *)

\* The typed data a log asked a signature for, with the clock read before
Signings(lg) ==
  {[nowMs |-> lg[CHOOSE j \in DOMAIN lg : lg[j].op = "Date.now"].data,
    message |-> lg[k].data.message] :
     k \in {j \in DOMAIN lg : lg[j].op = "signTypedData"}}

\* C28: every signed authorization has validAfter = now - 600 and
\* validBefore = now + maxTimeoutSeconds, 3600 when maxTimeoutSeconds is
\* unset, now being the clock in whole seconds at preparation.
C28_ValidityWindow ==
  \A run \in Runs : \A signing \in Signings(run.log) :
    LET now == signing.nowMs \div 1000
        timeout == run.input.maxTimeoutSeconds
    IN /\ signing.message.validAfter = JsBigInt(IntToChars(now - 600))
       /\ signing.message.validBefore =
            JsBigInt(IntToChars(now + (IF timeout.set THEN timeout.seconds ELSE 3600)))

\* An unset timeout has been signed as one hour from 1234 s
C28_Witness ==
  \E run \in Runs : \E signing \in Signings(run.log) :
    /\ run.input.maxTimeoutSeconds = SecondsUnset
    /\ signing.nowMs = 1234567
    /\ signing.message.validAfter = JsBigInt(<<"6", "3", "4">>)
    /\ signing.message.validBefore = JsBigInt(<<"4", "8", "3", "4">>)

----------------------------------------------------------------------------
(* C31 *)

\* C31: isUserRejection and isAlreadyConnected return a boolean and throw
\* for no input value, whatever the type of its code, name or message.
C31_ClassifiersNeverThrow ==
  (HelperReturned("isUserRejection") \/ HelperReturned("isAlreadyConnected")) =>
    /\ ~helperCall.result.threw
    /\ helperCall.result.value \in BOOLEAN

----------------------------------------------------------------------------
(* C32 *)

\* The value is an 'already connected' condition by kind, by name or by
\* message text
IsAlreadyConnectedShape(e) ==
  \/ e.cls = "ConnectorAlreadyConnectedError"
  \/ e.name = "ConnectorAlreadyConnectedError"
  \/ (e.message.t = "string" /\ LowerIncludesAlreadyConnected(e.message.v))

\* The step in which the connect call of an invocation rejected with e
ConnectFailedWith(e) ==
  /\ returned'.kind = "connectWithConnector"
  /\ returned'.failedAt = "connect"
  /\ returned'.thrown = e

\* C32: when the connect call fails with an 'already connected' condition
\* (by error kind, by name, or by message text) the invocation calls
\* onConnected, leaves the PaywallState as it was, calls neither showError
\* nor onError, and releases the lock.
C32_AlreadyConnectedIsSuccess ==
  [][\A e \in {x \in ThrownValues : IsAlreadyConnectedShape(x)} :
       ConnectFailedWith(e) =>
         /\ Count(returned'.fx, "onConnected") = 1
         /\ ~Has(returned'.log, "showError")
         /\ ~Has(returned'.log, "onError")
         /\ state' = state
         /\ Has(returned'.fx, "endAction")
         /\ ~actionLockRef' /\ ~isActionBusy']_vars

\* A connect call has failed with an error that only its message marks as
\* 'already connected'
C32_Witness ==
  /\ returned.kind = "connectWithConnector"
  /\ returned.failedAt = "connect"
  /\ returned.thrown = ThrownAlreadyConnectedText
  /\ Has(returned.fx, "onConnected")
  /\ ~actionLockRef

----------------------------------------------------------------------------
(* C33 *)

\* C33: parseNetworkChainId returns n for an identifier that is exactly
\* eip155:<decimal n>, and null for every other string: absent, empty, of
\* another namespace, or with characters around the pattern.
C33_ChainIdOnlyFromExactForm ==
  HelperReturned("parseNetworkChainId") =>
    LET network == helperCall.args[1]
    IN helperCall.result =
         (IF HasChainId(network) THEN JsNum(ChainIdOf(network)) ELSE JsNull)

----------------------------------------------------------------------------
(* C34 *)

\* The step resumes the invocation of the component with the given id: it
\* leaves the await it was suspended at
Continued(id) ==
  \E i \in DOMAIN componentActions :
    /\ componentActions[i].id = id
    /\ \A j \in DOMAIN componentActions' :
         componentActions'[j].id = id => componentActions'[j].pc # componentActions[i].pc

\* C34: in the X402Paywall component, when resetState has run while an
\* invocation of signPayment or of a connect action was suspended, the
\* steps that invocation takes afterwards change neither status, nor
\* errorMessage, nor connectedAddress.
C34_ResetDiscardsSuspendedAction ==
  [][\A i \in DOMAIN componentActions :
       (componentActions[i].resetSince /\ Continued(componentActions[i].id))
         => /\ component'.status = component.status
            /\ component'.errorMessage = component.errorMessage
            /\ connectedAddress' = connectedAddress]_vars

----------------------------------------------------------------------------
(* C35 *)

\* The log sets status to success or invokes onSuccess
Succeeds(lg) ==
  \E k \in DOMAIN lg :
    lg[k].op = "onSuccess" \/ (lg[k].op = "setStatus" /\ lg[k].arg = "success")

\* The log holds a request that carries a signature the wallet returned
\* to a signature request made earlier in the same log
SignedRequestIn(lg) ==
  \E k \in DOMAIN lg :
    /\ lg[k].op = "fetch"
    /\ lg[k].arg \in Signatures
    /\ PayloadIn(lg[k].data, "x-payment-signature").payload.signature = lg[k].arg
    /\ \E j \in 1..(k - 1) : lg[j].op = "signTypedData"

\* C35: status is set to success, and onSuccess invoked, only in the last
\* step of a signPayment invocation whose token was current when that step
\* began and that received a 2xx response to a request carrying a signature
\* obtained in the same invocation.
C35_SuccessOnlyByCurrentSignedAction ==
  /\ [](/\ \A i \in DOMAIN inv : ~Succeeds(inv[i].log)
        /\ (HasReturned /\ Succeeds(returned.log))
             => /\ returned.kind = "signPayment"
                /\ Succeeds(returned.fx)
                /\ ~returned.wasStale
                /\ returned.response.ok
                /\ SignedRequestIn(returned.log))
  /\ [][(state'.status = "success" /\ state.status # "success")
          => (returned'.kind = "signPayment" /\ Succeeds(returned'.fx))]_vars

\* An invocation that began after a resetAction has succeeded
C35_Witness ==
  /\ returned.kind = "signPayment"
  /\ returned.exit = "completed"
  /\ returned.actionId = 2
  /\ Succeeds(returned.fx)
  /\ state.status = "success"

----------------------------------------------------------------------------
(* C36 *)

\* No effect of the log that follows a setStatus('success') is a showError
OneTerminalTransition(lg) ==
  \A j, k \in DOMAIN lg :
    (j < k /\ lg[j].op = "setStatus" /\ lg[j].arg = "success") => lg[k].op # "showError"

\* C36: a signPayment invocation that has set status to success never
\* afterwards calls showError or leaves status at error, whether onSuccess
\* returns or throws.
C36_SuccessIsFinal ==
  /\ \A i \in DOMAIN inv : OneTerminalTransition(inv[i].log)
  /\ (HasReturned /\ returned.kind = "signPayment" /\ Succeeds(returned.log))
       => /\ OneTerminalTransition(returned.log)
          /\ state.status = "success"

----------------------------------------------------------------------------
(* C37 *)

\* The invocation that was given the token id is in flight
InFlight(id) == \E i \in DOMAIN inv : inv[i].actionId = id

\* C37: when every wallet request and every HTTP call settles, every
\* invocation that was given a token ends, the lock and the busy flag are
\* released again whenever they are held, a beginAction on the released
\* lock returns a token, and no lock is held once no invocation is in flight.
C37_LockIsEventuallyReleased ==
  /\ \A id \in 1..MaxNonce : InFlight(id) ~> ~InFlight(id)
  /\ (actionLockRef \/ isActionBusy) ~> (~actionLockRef /\ ~isActionBusy)
  /\ [](~actionLockRef => beginAction(actionLockRef, actionNonceRef, isActionBusy).taken)
  /\ [](inv = <<>> => (~actionLockRef /\ ~isActionBusy))

\* An invocation has ended on an exception that escaped it, and the lock
\* is free
C37_Witness ==
  /\ HasReturned
  /\ TookLock(returned)
  /\ returned.exit = "escaped"
  /\ Has(returned.fx, "endAction")
  /\ ~actionLockRef /\ ~isActionBusy
  /\ inv = <<>>

----------------------------------------------------------------------------
(* C38 *)

\* C38: in paywallReducer, setStatus changes only status; setProcessingText
\* changes only processingText; setError sets status to error and
\* errorMessage, and leaves processingText; reset sets status to the given
\* value, errorMessage to the empty string and processingText to the
\* default.  Status is always one of connect, connected, processing,
\* success, error, and starts at connect.
C38_ReducerFrame ==
  /\ state.status = "connect"
  /\ HelperReturned("paywallReducer") =>
       LET st == helperCall.args[1]
           action == helperCall.args[2]
           result == helperCall.result
       IN /\ result.status \in PaywallStatuses
          /\ DOMAIN result = {"status", "errorMessage", "processingText"}
          /\ action.type = "setStatus" =>
               result = [st EXCEPT !.status = action.status]
          /\ action.type = "setProcessingText" =>
               result = [st EXCEPT !.processingText = action.text]
          /\ action.type = "setError" =>
               /\ result.status = "error"
               /\ result.errorMessage = action.message
               /\ result.processingText = st.processingText
          /\ action.type = "reset" =>
               /\ result.status = action.status
               /\ result.errorMessage = ""
               /\ result.processingText = DEFAULT_PROCESSING_TEXT

\* setError has been applied to a state with a processing text of its own
C38_Witness ==
  /\ HelperReturned("paywallReducer")
  /\ helperCall.args[2].type = "setError"
  /\ helperCall.args[1].processingText = "Checking network..."
  /\ helperCall.args[1].status = "processing"
  /\ helperCall.result =
       [status |-> "error", errorMessage |-> "boom", processingText |-> "Checking network..."]

----------------------------------------------------------------------------
(* C39 *)

\* digits, or digits "." digits
IsDecimalAmount(chars) ==
  IF DotFrom(chars, 1) = 0
  THEN chars # <<>> /\ AllDigits(chars)
  ELSE /\ DotFrom(chars, DotFrom(chars, 1) + 1) = 0
       /\ WholePart(chars) # <<>> /\ AllDigits(WholePart(chars))
       /\ FractionPart(chars) # <<>> /\ AllDigits(FractionPart(chars))

\* C39: for every amount of the form digits or digits "." digits, the
\* zero-pad-and-concatenate path (the catch branch of the helpers'
\* normalizeAtomicAmount, and the whole of the component's) gives the
\* atomic string that the parseUnits path gives.
C39_ManualPathAgreesWithParseUnits ==
  (/\ HelperReturned("x402NormalizeAtomicAmount")
   /\ IsDecimalAmount(helperCall.args[1].chars)) =>
    LET amount == helperCall.args[1]
        whole == WholePart(amount.chars)
        trimmedFraction == SliceTo(FractionPart(amount.chars), 6)
    IN /\ helperCall.result = normalizeAtomicAmount(amount)
       /\ DotFrom(amount.chars, 1) # 0 =>
            /\ ~ParseUnitsThrows(whole, trimmedFraction)
            /\ ZeroPadAndConcatenate(whole, trimmedFraction)
                 = ParseUnits6(whole, trimmedFraction)
            /\ helperCall.result = JsStr(ParseUnits6(whole, trimmedFraction))

\* The component's normalizer has turned 00.50 into 500000
C39_Witness ==
  /\ HelperReturned("x402NormalizeAtomicAmount")
  /\ helperCall.args[1] = JsStr(<<"0", "0", ".", "5", "0">>)
  /\ IsDecimalAmount(helperCall.args[1].chars)
  /\ helperCall.result = JsStr(<<"5", "0", "0", "0", "0", "0">>)

====
